---- MODULE Spec2Model ----
(***************************************************************************)
(* A model of uv's distribution prioritisation bucket,                     *)
(* crates/distribution-types/src/prioritized_distribution.rs, and, in the  *)
(* second part of the module, of `uv python uninstall`,                    *)
(* crates/uv/src/commands/python/uninstall.rs.                             *)
(*                                                                         *)
(* A PrioritizedDist is built by Default, from_built or from_source and    *)
(* then grows by insert_built / insert_source.  The five fields of         *)
(* PrioritizedDistInner are the variables; `calls` is a history variable   *)
(* recording every constructor and insertion call with its arguments, so   *)
(* that properties about "every wheel ever inserted" can be stated.        *)
(*                                                                         *)
(* Option<T> is modelled as [tag |-> "None"] / [tag |-> "Some", v |-> x],  *)
(* a Rust tuple as a TLA+ tuple, an enum value as a record with a `kind`.  *)
(* A Dist is identified by a number; the i-th call supplies Dist i (each   *)
(* file of a package version is classified and inserted once).             *)
(***************************************************************************)
EXTENDS Integers, Sequences, FiniteSets, TLC

VARIABLES compatible_source, compatible_wheel, incompatible_wheel,
          incompatible_source, hashes, calls,
          \* `uv python uninstall`: the file system, the holder of the
          \* managed-installations lock, and the state of each run.
          fs, lock, proc,
          \* detect_virtual_env: the environment variables, the `.venv` entry
          \* of each ancestor of the current directory, and the call's state.
          environ, dot_venvs, detect,
          \* detect_linux_libc: what the host answers to each probe, and the
          \* call's state.
          system, libc

bucket_vars == <<compatible_source, compatible_wheel, incompatible_wheel,
                 incompatible_source, hashes, calls>>

uninstall_vars == <<fs, lock, proc>>

venv_vars == <<environ, dot_venvs, detect>>

libc_vars == <<system, libc>>

vars == <<compatible_source, compatible_wheel, incompatible_wheel,
          incompatible_source, hashes, calls, fs, lock, proc,
          environ, dot_venvs, detect, system, libc>>

(***************************************************************************)
(* Bounds of the model.                                                    *)
(***************************************************************************)
\* Number of constructor / insertion calls made on one bucket.
MaxCalls == 3
\* Longer runs of incompatible insertions stop after MaxInsertions calls.
MaxInsertions == 6
\* Managed Pythons are 3.<minor>.<patch>, minor in 1..MaxMinor and patch in
\* 1..MaxPatch; a run of `uv python uninstall` names at most MaxTargets targets.
MaxMinor == 2
MaxPatch == 2
MaxTargets == 2
\* TagPriority values are 1..MaxPriority.
MaxPriority == 2
\* IncompatibleTag values are 1..MaxIncompatibleTag (a totally ordered enum).
MaxIncompatibleTag == 2
\* Upload timestamps (i64) are 1..MaxTimestamp.
MaxTimestamp == 2

(***************************************************************************)
(* Value domains.                                                          *)
(***************************************************************************)
None == [tag |-> "None"]
Some(x) == [tag |-> "Some", v |-> x]
is_some(o) == o.tag = "Some"
is_none(o) == o.tag = "None"

TagPriority == 1..MaxPriority
IncompatibleTag == 1..MaxIncompatibleTag
Timestamps == 1..MaxTimestamp
OptionTimestamp == {None} \cup {Some(t) : t \in Timestamps}
VersionSpecifiers == {">=3.12"}
Yanked == {[kind |-> "NoReason"], [kind |-> "Reason", reason |-> "broken"]}

IncompatibleWheel ==
    {[kind |-> "ExcludeNewer", timestamp |-> t] : t \in OptionTimestamp}
    \cup {[kind |-> "Tag", tag |-> k] : k \in IncompatibleTag}
    \cup {[kind |-> "RequiresPython", specifiers |-> s] : s \in VersionSpecifiers}
    \cup {[kind |-> "Yanked", yanked |-> y] : y \in Yanked}
    \cup {[kind |-> "NoBinary"]}

IncompatibleSource ==
    {[kind |-> "ExcludeNewer", timestamp |-> t] : t \in OptionTimestamp}
    \cup {[kind |-> "RequiresPython", specifiers |-> s] : s \in VersionSpecifiers}
    \cup {[kind |-> "Yanked", yanked |-> y] : y \in Yanked}
    \cup {[kind |-> "NoBuild"]}

WheelCompatibility ==
    {[kind |-> "Incompatible", incompatibility |-> r] : r \in IncompatibleWheel}
    \cup {[kind |-> "Compatible", priority |-> p] : p \in TagPriority}

SourceDistCompatibility ==
    {[kind |-> "Incompatible", incompatibility |-> r] : r \in IncompatibleSource}
    \cup {[kind |-> "Compatible"]}

\* The content digest (Hashes) of Dist d.
HashOf(d) == d

(***************************************************************************)
(* core::cmp on Option<i64> (derived PartialOrd: None < Some(_)).          *)
(***************************************************************************)
OptionLt(a, b) ==
    IF is_none(a) THEN is_some(b)
    ELSE IF is_none(b) THEN FALSE
    ELSE a.v < b.v

(***************************************************************************)
(* IncompatibleSource::is_more_compatible                                  *)
(***************************************************************************)
\* Mutant: a NoBuild source is more compatible than an ExcludeNewer one.
IncompatibleSource_no_build_above_exclude_newer(self, other) ==
    CASE self.kind = "ExcludeNewer" ->
            IF other.kind = "ExcludeNewer"
            THEN OptionLt(other.timestamp, self.timestamp)
            ELSE TRUE
      [] self.kind = "RequiresPython" ->
            CASE other.kind = "ExcludeNewer" -> FALSE
              [] other.kind = "RequiresPython" -> FALSE
              [] OTHER -> TRUE
      [] self.kind = "Yanked" ->
            CASE other.kind \in {"ExcludeNewer", "RequiresPython"} -> FALSE
              [] other.kind = "Yanked" -> other.yanked.kind = "Reason"
              [] OTHER -> TRUE
      [] OTHER -> other.kind = "ExcludeNewer"

\* Mutant: a Yanked source is not more compatible than a NoBuild one.
IncompatibleSource_yanked_not_above_no_build(self, other) ==
    CASE self.kind = "ExcludeNewer" ->
            IF other.kind = "ExcludeNewer"
            THEN OptionLt(other.timestamp, self.timestamp)
            ELSE TRUE
      [] self.kind = "RequiresPython" ->
            CASE other.kind = "ExcludeNewer" -> FALSE
              [] other.kind = "RequiresPython" -> FALSE
              [] OTHER -> TRUE
      [] self.kind = "Yanked" ->
            CASE other.kind \in {"ExcludeNewer", "RequiresPython"} -> FALSE
              [] other.kind = "Yanked" -> other.yanked.kind = "Reason"
              [] OTHER -> FALSE
      [] OTHER -> FALSE

IncompatibleSource_is_more_compatible(self, other) ==
    CASE self.kind = "ExcludeNewer" ->
            IF other.kind = "ExcludeNewer"
            THEN OptionLt(other.timestamp, self.timestamp)
            ELSE TRUE
      [] self.kind = "RequiresPython" ->
            CASE other.kind = "ExcludeNewer" -> FALSE
              [] other.kind = "RequiresPython" -> FALSE
              [] OTHER -> TRUE
      [] self.kind = "Yanked" ->
            CASE other.kind \in {"ExcludeNewer", "RequiresPython"} -> FALSE
              [] other.kind = "Yanked" -> other.yanked.kind = "Reason"
              [] OTHER -> TRUE
      [] OTHER -> FALSE

(***************************************************************************)
(* IncompatibleWheel::is_more_compatible                                   *)
(***************************************************************************)
\* Mutant: a RequiresPython wheel replaces a held RequiresPython wheel.
IncompatibleWheel_requires_python_replaces(self, other) ==
    CASE self.kind = "ExcludeNewer" ->
            IF other.kind = "ExcludeNewer"
            THEN CASE is_none(self.timestamp) -> TRUE
                   [] is_none(other.timestamp) -> FALSE
                   [] OTHER -> other.timestamp.v < self.timestamp.v
            ELSE TRUE
      [] self.kind = "Tag" ->
            CASE other.kind = "ExcludeNewer" -> FALSE
              [] other.kind = "Tag" -> other.tag > self.tag
              [] OTHER -> TRUE
      [] self.kind = "RequiresPython" ->
            CASE other.kind \in {"ExcludeNewer", "Tag"} -> FALSE
              [] OTHER -> TRUE
      [] self.kind = "Yanked" ->
            CASE other.kind \in {"ExcludeNewer", "Tag", "RequiresPython"} -> FALSE
              [] other.kind = "Yanked" -> other.yanked.kind = "Reason"
              [] OTHER -> TRUE
      [] OTHER -> FALSE

IncompatibleWheel_is_more_compatible(self, other) ==
    CASE self.kind = "ExcludeNewer" ->
            IF other.kind = "ExcludeNewer"
            THEN CASE is_none(self.timestamp) -> TRUE
                   [] is_none(other.timestamp) -> FALSE
                   [] OTHER -> other.timestamp.v < self.timestamp.v
            ELSE TRUE
      [] self.kind = "Tag" ->
            CASE other.kind = "ExcludeNewer" -> FALSE
              [] other.kind = "Tag" -> other.tag > self.tag
              [] OTHER -> TRUE
      [] self.kind = "RequiresPython" ->
            CASE other.kind \in {"ExcludeNewer", "Tag"} -> FALSE
              [] other.kind = "RequiresPython" -> FALSE
              [] OTHER -> TRUE
      [] self.kind = "Yanked" ->
            CASE other.kind \in {"ExcludeNewer", "Tag", "RequiresPython"} -> FALSE
              [] other.kind = "Yanked" -> other.yanked.kind = "Reason"
              [] OTHER -> TRUE
      [] OTHER -> FALSE

(***************************************************************************)
(* PrioritizedDist: the bucket as a value, and its operations.             *)
(***************************************************************************)
\* #[derive(Default)]: every slot None, no hashes.
DefaultDist ==
    [compatible_source |-> None, compatible_wheel |-> None,
     incompatible_wheel |-> None, incompatible_source |-> None,
     hashes |-> <<>>]

\* hash.map(|hash| vec![hash]).unwrap_or_default()
hash_vec(hash) == IF is_some(hash) THEN <<hash.v>> ELSE <<>>

\* Mutant: a digest already recorded is not pushed again.
push_hash_dedup(self, hash) ==
    IF is_some(hash) /\ \A k \in 1..Len(self.hashes) : self.hashes[k] # hash.v
    THEN [self EXCEPT !.hashes = Append(@, hash.v)]
    ELSE self

\* if let Some(hash) = hash { self.0.hashes.push(hash); }
push_hash(self, hash) ==
    IF is_some(hash) THEN [self EXCEPT !.hashes = Append(@, hash.v)] ELSE self

\* Mutant: the constructor does not record the digest.
from_built_without_hash(dist, hash, compatibility) ==
    IF compatibility.kind = "Compatible"
    THEN [compatible_source |-> None,
          compatible_wheel |-> Some(<<dist, compatibility.priority>>),
          incompatible_wheel |-> None,
          incompatible_source |-> None,
          hashes |-> <<>>]
    ELSE [compatible_source |-> None,
          compatible_wheel |-> None,
          incompatible_wheel |-> Some(<<dist, compatibility.incompatibility>>),
          incompatible_source |-> None,
          hashes |-> <<>>]

from_built(dist, hash, compatibility) ==
    IF compatibility.kind = "Compatible"
    THEN [compatible_source |-> None,
          compatible_wheel |-> Some(<<dist, compatibility.priority>>),
          incompatible_wheel |-> None,
          incompatible_source |-> None,
          hashes |-> hash_vec(hash)]
    ELSE [compatible_source |-> None,
          compatible_wheel |-> None,
          incompatible_wheel |-> Some(<<dist, compatibility.incompatibility>>),
          incompatible_source |-> None,
          hashes |-> hash_vec(hash)]

from_source(dist, hash, compatibility) ==
    IF compatibility.kind = "Compatible"
    THEN [compatible_source |-> Some(dist),
          incompatible_source |-> None,
          compatible_wheel |-> None,
          incompatible_wheel |-> None,
          hashes |-> hash_vec(hash)]
    ELSE [compatible_source |-> None,
          incompatible_source |-> Some(<<dist, compatibility.incompatibility>>),
          compatible_wheel |-> None,
          incompatible_wheel |-> None,
          hashes |-> hash_vec(hash)]

\* Mutant: a compatible wheel also clears the incompatible wheel slot.
insert_built_resets_incompatible_wheel(self, dist, hash, compatibility) ==
    LET slots ==
          IF compatibility.kind = "Compatible"
          THEN IF is_some(self.compatible_wheel)
               THEN IF compatibility.priority > self.compatible_wheel.v[2]
                    THEN [self EXCEPT !.compatible_wheel =
                                         Some(<<dist, compatibility.priority>>),
                                      !.incompatible_wheel = None]
                    ELSE self
               ELSE [self EXCEPT !.compatible_wheel =
                                    Some(<<dist, compatibility.priority>>),
                                 !.incompatible_wheel = None]
          ELSE IF is_some(self.incompatible_wheel)
               THEN IF IncompatibleWheel_is_more_compatible(
                           compatibility.incompatibility,
                           self.incompatible_wheel.v[2])
                    THEN [self EXCEPT !.incompatible_wheel =
                                         Some(<<dist, compatibility.incompatibility>>)]
                    ELSE self
               ELSE [self EXCEPT !.incompatible_wheel =
                                    Some(<<dist, compatibility.incompatibility>>)]
    IN push_hash(slots, hash)

\* Mutant: every compatible wheel replaces the held one (last wins).
insert_built_last_wins(self, dist, hash, compatibility) ==
    LET slots ==
          IF compatibility.kind = "Compatible"
          THEN [self EXCEPT !.compatible_wheel =
                               Some(<<dist, compatibility.priority>>)]
          ELSE IF is_some(self.incompatible_wheel)
                  /\ ~IncompatibleWheel_is_more_compatible(
                           compatibility.incompatibility,
                           self.incompatible_wheel.v[2])
               THEN self
               ELSE [self EXCEPT !.incompatible_wheel =
                                    Some(<<dist, compatibility.incompatibility>>)]
    IN push_hash(slots, hash)

\* Mutant: a compatible wheel of equal priority replaces the held one (>=).
insert_built_ties_replace(self, dist, hash, compatibility) ==
    LET slots ==
          IF compatibility.kind = "Compatible"
          THEN IF is_some(self.compatible_wheel)
                  /\ compatibility.priority < self.compatible_wheel.v[2]
               THEN self
               ELSE [self EXCEPT !.compatible_wheel =
                                    Some(<<dist, compatibility.priority>>)]
          ELSE IF is_some(self.incompatible_wheel)
                  /\ ~IncompatibleWheel_is_more_compatible(
                           compatibility.incompatibility,
                           self.incompatible_wheel.v[2])
               THEN self
               ELSE [self EXCEPT !.incompatible_wheel =
                                    Some(<<dist, compatibility.incompatibility>>)]
    IN push_hash(slots, hash)

insert_built(self, dist, hash, compatibility) ==
    LET slots ==
          IF compatibility.kind = "Compatible"
          THEN IF is_some(self.compatible_wheel)
               THEN IF compatibility.priority > self.compatible_wheel.v[2]
                    THEN [self EXCEPT !.compatible_wheel =
                                         Some(<<dist, compatibility.priority>>)]
                    ELSE self
               ELSE [self EXCEPT !.compatible_wheel =
                                    Some(<<dist, compatibility.priority>>)]
          ELSE IF is_some(self.incompatible_wheel)
               THEN IF IncompatibleWheel_is_more_compatible(
                           compatibility.incompatibility,
                           self.incompatible_wheel.v[2])
                    THEN [self EXCEPT !.incompatible_wheel =
                                         Some(<<dist, compatibility.incompatibility>>)]
                    ELSE self
               ELSE [self EXCEPT !.incompatible_wheel =
                                    Some(<<dist, compatibility.incompatibility>>)]
    IN push_hash(slots, hash)

\* Mutant: a compatible source always overwrites the held one.
insert_source_last_wins(self, dist, hash, compatibility) ==
    LET slots ==
          IF compatibility.kind = "Compatible"
          THEN [self EXCEPT !.compatible_source = Some(dist)]
          ELSE IF is_some(self.incompatible_source)
               THEN IF IncompatibleSource_is_more_compatible(
                           compatibility.incompatibility,
                           self.incompatible_source.v[2])
                    THEN [self EXCEPT !.incompatible_source =
                                         Some(<<dist, compatibility.incompatibility>>)]
                    ELSE self
               ELSE [self EXCEPT !.incompatible_source =
                                    Some(<<dist, compatibility.incompatibility>>)]
    IN push_hash(slots, hash)

insert_source(self, dist, hash, compatibility) ==
    LET slots ==
          IF compatibility.kind = "Compatible"
          THEN IF is_none(self.compatible_source)
               THEN [self EXCEPT !.compatible_source = Some(dist)]
               ELSE self
          ELSE IF is_some(self.incompatible_source)
               THEN IF IncompatibleSource_is_more_compatible(
                           compatibility.incompatibility,
                           self.incompatible_source.v[2])
                    THEN [self EXCEPT !.incompatible_source =
                                         Some(<<dist, compatibility.incompatibility>>)]
                    ELSE self
               ELSE [self EXCEPT !.incompatible_source =
                                    Some(<<dist, compatibility.incompatibility>>)]
    IN push_hash(slots, hash)

\* Mutant: a compatible source is preferred to a compatible wheel.
get_source_first(self) ==
    CASE is_some(self.compatible_source) ->
            Some([kind |-> "SourceDist", sdist |-> self.compatible_source.v])
      [] is_none(self.compatible_source) /\ is_some(self.compatible_wheel) ->
            Some([kind |-> "CompatibleWheel",
                  wheel |-> self.compatible_wheel.v[1],
                  priority |-> self.compatible_wheel.v[2]])
      [] OTHER -> None

\* Mutant: the incompatible wheel is never used for resolution.
get_no_hybrid(self) ==
    CASE is_some(self.compatible_wheel) ->
            Some([kind |-> "CompatibleWheel",
                  wheel |-> self.compatible_wheel.v[1],
                  priority |-> self.compatible_wheel.v[2]])
      [] is_none(self.compatible_wheel) /\ is_some(self.compatible_source) ->
            Some([kind |-> "SourceDist", sdist |-> self.compatible_source.v])
      [] OTHER -> None

\* Mutant: the two fields of CompatibleDist::IncompatibleWheel are swapped.
get_swapped(self) ==
    CASE is_some(self.compatible_wheel) ->
            Some([kind |-> "CompatibleWheel",
                  wheel |-> self.compatible_wheel.v[1],
                  priority |-> self.compatible_wheel.v[2]])
      [] is_none(self.compatible_wheel) /\ is_some(self.compatible_source)
            /\ is_some(self.incompatible_wheel) ->
            Some([kind |-> "IncompatibleWheel",
                  source_dist |-> self.incompatible_wheel.v[1],
                  wheel |-> self.compatible_source.v])
      [] is_none(self.compatible_wheel) /\ is_some(self.compatible_source)
            /\ is_none(self.incompatible_wheel) ->
            Some([kind |-> "SourceDist", sdist |-> self.compatible_source.v])
      [] OTHER -> None

\* PrioritizedDist::get: Option<CompatibleDist>
get(self) ==
    CASE is_some(self.compatible_wheel) ->
            Some([kind |-> "CompatibleWheel",
                  wheel |-> self.compatible_wheel.v[1],
                  priority |-> self.compatible_wheel.v[2]])
      [] is_none(self.compatible_wheel) /\ is_some(self.compatible_source)
            /\ is_some(self.incompatible_wheel) ->
            Some([kind |-> "IncompatibleWheel",
                  source_dist |-> self.compatible_source.v,
                  wheel |-> self.incompatible_wheel.v[1]])
      [] is_none(self.compatible_wheel) /\ is_some(self.compatible_source)
            /\ is_none(self.incompatible_wheel) ->
            Some([kind |-> "SourceDist", sdist |-> self.compatible_source.v])
      [] OTHER -> None

\* Mutant: incompatible_source is not looked at.
is_empty_without_incompatible_source(self) ==
    /\ is_none(self.compatible_source)
    /\ is_none(self.compatible_wheel)
    /\ is_none(self.incompatible_wheel)

is_empty(self) ==
    /\ is_none(self.compatible_source)
    /\ is_none(self.incompatible_source)
    /\ is_none(self.compatible_wheel)
    /\ is_none(self.incompatible_wheel)

\* CompatibleDist::for_resolution
for_resolution(self) ==
    CASE self.kind = "SourceDist" -> self.sdist
      [] self.kind = "CompatibleWheel" -> self.wheel
      [] self.kind = "IncompatibleWheel" -> self.wheel

\* Mutant: installation uses the wheel in every case that has one.
for_installation_wheel(self) ==
    CASE self.kind = "SourceDist" -> self.sdist
      [] self.kind = "CompatibleWheel" -> self.wheel
      [] self.kind = "IncompatibleWheel" -> self.wheel

\* CompatibleDist::for_installation
for_installation(self) ==
    CASE self.kind = "SourceDist" -> self.sdist
      [] self.kind = "CompatibleWheel" -> self.wheel
      [] self.kind = "IncompatibleWheel" -> self.source_dist

(***************************************************************************)
(* The state machine: one bucket and the calls made on it.                 *)
(***************************************************************************)
\* The bucket held in the variables.
Bucket ==
    [compatible_source |-> compatible_source,
     compatible_wheel |-> compatible_wheel,
     incompatible_wheel |-> incompatible_wheel,
     incompatible_source |-> incompatible_source,
     hashes |-> hashes]

Store(b) ==
    /\ compatible_source' = b.compatible_source
    /\ compatible_wheel' = b.compatible_wheel
    /\ incompatible_wheel' = b.incompatible_wheel
    /\ incompatible_source' = b.incompatible_source
    /\ hashes' = b.hashes
    /\ UNCHANGED <<uninstall_vars, venv_vars, libc_vars>>

\* The history: which kind of artifact each call supplied, and its arguments.
Record(kind, dist, hash, compatibility) ==
    calls' = Append(calls, [kind |-> kind, dist |-> dist, hash |-> hash,
                            compatibility |-> compatibility])

\* The Dist supplied by the next call.
NextDist == Len(calls) + 1

Init ==
    /\ compatible_source = DefaultDist.compatible_source
    /\ compatible_wheel = DefaultDist.compatible_wheel
    /\ incompatible_wheel = DefaultDist.incompatible_wheel
    /\ incompatible_source = DefaultDist.incompatible_source
    /\ hashes = DefaultDist.hashes
    /\ calls = <<>>
    \* no uninstall run
    /\ fs = [dirs |-> {}, links |-> <<>>, bin |-> {}, root |-> FALSE]
    /\ lock = 0
    /\ proc = <<>>
    \* no environment lookup
    /\ environ = [VIRTUAL_ENV |-> None, CONDA_PREFIX |-> None]
    /\ dot_venvs = <<>>
    /\ detect = [pc |-> "idle"]
    \* no libc detection
    /\ system = <<>>
    /\ libc = [pc |-> "idle"]

\* The bucket is created by from_built instead of Default.
FromBuilt(dist, hash, compatibility) ==
    /\ calls = <<>>
    /\ Store(from_built(dist, hash, compatibility))
    /\ Record("built", dist, hash, compatibility)

\* The bucket is created by from_source instead of Default.
FromSource(dist, hash, compatibility) ==
    /\ calls = <<>>
    /\ Store(from_source(dist, hash, compatibility))
    /\ Record("source", dist, hash, compatibility)

InsertBuilt(dist, hash, compatibility) ==
    /\ Store(insert_built(Bucket, dist, hash, compatibility))
    /\ Record("built", dist, hash, compatibility)

InsertSource(dist, hash, compatibility) ==
    /\ Store(insert_source(Bucket, dist, hash, compatibility))
    /\ Record("source", dist, hash, compatibility)

\* The model stops after MaxCalls calls.
MoreCalls == Len(calls) < MaxCalls

\* Every artifact arrives with its digest; the slot logic does not read it.
Next ==
    \/ \E c \in WheelCompatibility :
          MoreCalls /\ FromBuilt(NextDist, Some(HashOf(NextDist)), c)
    \/ \E c \in SourceDistCompatibility :
          MoreCalls /\ FromSource(NextDist, Some(HashOf(NextDist)), c)
    \/ \E c \in WheelCompatibility :
          MoreCalls /\ InsertBuilt(NextDist, Some(HashOf(NextDist)), c)
    \/ \E c \in SourceDistCompatibility :
          MoreCalls /\ InsertSource(NextDist, Some(HashOf(NextDist)), c)

Spec == Init /\ [][Next]_vars

(***************************************************************************)
(* The same operations with the hash argument varied: None, or one of two  *)
(* digests that may repeat.  The verdicts are cut to two per slot so that  *)
(* the hash choices stay explorable.                                       *)
(***************************************************************************)
OptionHashes == {None, Some("sha256:aa"), Some("sha256:bb")}

FewWheelCompatibility ==
    {[kind |-> "Compatible", priority |-> p] : p \in TagPriority}
    \cup {[kind |-> "Incompatible", incompatibility |-> r] :
             r \in {[kind |-> "NoBinary"],
                    [kind |-> "Yanked", yanked |-> [kind |-> "NoReason"]]}}

FewSourceDistCompatibility ==
    {[kind |-> "Compatible"]}
    \cup {[kind |-> "Incompatible", incompatibility |-> r] :
             r \in {[kind |-> "NoBuild"],
                    [kind |-> "Yanked", yanked |-> [kind |-> "NoReason"]]}}

NextHashes ==
    \/ \E h \in OptionHashes, c \in FewWheelCompatibility :
          MoreCalls /\ FromBuilt(NextDist, h, c)
    \/ \E h \in OptionHashes, c \in FewSourceDistCompatibility :
          MoreCalls /\ FromSource(NextDist, h, c)
    \/ \E h \in OptionHashes, c \in FewWheelCompatibility :
          MoreCalls /\ InsertBuilt(NextDist, h, c)
    \/ \E h \in OptionHashes, c \in FewSourceDistCompatibility :
          MoreCalls /\ InsertSource(NextDist, h, c)

SpecHashes == Init /\ [][NextHashes]_vars

(***************************************************************************)
(* The same operations on incompatible artifacts only, with two distinct   *)
(* VersionSpecifiers payloads for RequiresPython and one reason of each of *)
(* three other kinds.                                                      *)
(***************************************************************************)
TwoVersionSpecifiers == VersionSpecifiers \cup {">=3.8"}

ReasonsWheelCompatibility ==
    {[kind |-> "Incompatible", incompatibility |-> r] :
        r \in {[kind |-> "RequiresPython", specifiers |-> s] :
                  s \in TwoVersionSpecifiers}
              \cup {[kind |-> "ExcludeNewer", timestamp |-> None],
                    [kind |-> "Yanked", yanked |-> [kind |-> "NoReason"]],
                    [kind |-> "NoBinary"]}}

ReasonsSourceDistCompatibility ==
    {[kind |-> "Incompatible", incompatibility |-> r] :
        r \in {[kind |-> "RequiresPython", specifiers |-> s] :
                  s \in TwoVersionSpecifiers}
              \cup {[kind |-> "ExcludeNewer", timestamp |-> None],
                    [kind |-> "Yanked", yanked |-> [kind |-> "NoReason"]],
                    [kind |-> "NoBuild"]}}

NextReasons ==
    \/ \E c \in ReasonsWheelCompatibility :
          MoreCalls /\ FromBuilt(NextDist, Some(HashOf(NextDist)), c)
    \/ \E c \in ReasonsSourceDistCompatibility :
          MoreCalls /\ FromSource(NextDist, Some(HashOf(NextDist)), c)
    \/ \E c \in ReasonsWheelCompatibility :
          MoreCalls /\ InsertBuilt(NextDist, Some(HashOf(NextDist)), c)
    \/ \E c \in ReasonsSourceDistCompatibility :
          MoreCalls /\ InsertSource(NextDist, Some(HashOf(NextDist)), c)

SpecReasons == Init /\ [][NextReasons]_vars

(***************************************************************************)
(* Longer runs of insertions of incompatible artifacts into the default    *)
(* bucket: every source reason, and three wheel reasons.                   *)
(***************************************************************************)
ConvergeWheelCompatibility ==
    {[kind |-> "Incompatible", incompatibility |-> r] :
        r \in {[kind |-> "ExcludeNewer", timestamp |-> None],
               [kind |-> "Tag", tag |-> 1],
               [kind |-> "NoBinary"]}}

ConvergeSourceDistCompatibility ==
    {[kind |-> "Incompatible", incompatibility |-> r] : r \in IncompatibleSource}

MoreInsertions == Len(calls) < MaxInsertions

NextConverge ==
    \/ \E c \in ConvergeWheelCompatibility :
          MoreInsertions /\ InsertBuilt(NextDist, Some(HashOf(NextDist)), c)
    \/ \E c \in ConvergeSourceDistCompatibility :
          MoreInsertions /\ InsertSource(NextDist, Some(HashOf(NextDist)), c)

SpecConverge == Init /\ [][NextConverge]_vars

(***************************************************************************)
(* Views of the history.                                                   *)
(***************************************************************************)
Calls == 1..Len(calls)
BuiltCompatible ==
    {i \in Calls : calls[i].kind = "built"
                   /\ calls[i].compatibility.kind = "Compatible"}
BuiltIncompatible ==
    {i \in Calls : calls[i].kind = "built"
                   /\ calls[i].compatibility.kind = "Incompatible"}
SourceCompatible ==
    {i \in Calls : calls[i].kind = "source"
                   /\ calls[i].compatibility.kind = "Compatible"}
SourceIncompatible ==
    {i \in Calls : calls[i].kind = "source"
                   /\ calls[i].compatibility.kind = "Incompatible"}
Max(S) == CHOOSE x \in S : \A y \in S : y <= x
Min(S) == CHOOSE x \in S : \A y \in S : x <= y

(***************************************************************************)
(* C1: if compatible_wheel holds (d, p) then p is the maximum TagPriority  *)
(* over all wheels inserted with verdict Compatible, and d is the          *)
(* first-inserted wheel among those with priority p.                       *)
(***************************************************************************)
C1_MaxPriorityFirstWins ==
    is_some(compatible_wheel) =>
        LET d == compatible_wheel.v[1]
            p == compatible_wheel.v[2]
        IN /\ BuiltCompatible # {}
           /\ p = Max({calls[i].compatibility.priority : i \in BuiltCompatible})
           /\ d = calls[Min({i \in BuiltCompatible :
                               calls[i].compatibility.priority = p})].dist

\* Three compatible wheels: a lower priority, then two of the maximum
\* priority; the first of the two is held.
C1_Witness ==
    /\ is_some(compatible_wheel)
    /\ \E i, j, k \in BuiltCompatible :
          /\ i < j /\ i # k /\ j # k
          /\ calls[i].compatibility.priority = compatible_wheel.v[2]
          /\ calls[j].compatibility.priority = compatible_wheel.v[2]
          /\ calls[k].compatibility.priority < compatible_wheel.v[2]
          /\ compatible_wheel.v[1] = calls[i].dist

(***************************************************************************)
(* C2: get() returns CompatibleWheel(w, p) with exactly the dist and       *)
(* priority held in compatible_wheel whenever that slot is set, whatever   *)
(* the other slots hold.                                                   *)
(***************************************************************************)
C2_CompatibleWheelWins ==
    is_some(compatible_wheel) =>
        get(Bucket) = Some([kind |-> "CompatibleWheel",
                            wheel |-> compatible_wheel.v[1],
                            priority |-> compatible_wheel.v[2]])

\* A compatible wheel beside a compatible source and an incompatible wheel.
C2_Witness ==
    /\ is_some(compatible_wheel)
    /\ is_some(compatible_source)
    /\ is_some(incompatible_wheel)
    /\ get(Bucket).v.kind = "CompatibleWheel"

(***************************************************************************)
(* C3: with compatible_wheel None, get() is IncompatibleWheel{s, w} when   *)
(* compatible_source = Some(s) and incompatible_wheel = Some(w, _),        *)
(* SourceDist(s) when compatible_source = Some(s) and incompatible_wheel   *)
(* is None, and None whenever compatible_source is None.                   *)
(***************************************************************************)
C3_GetWithoutCompatibleWheel ==
    is_none(compatible_wheel) =>
        /\ (is_some(compatible_source) /\ is_some(incompatible_wheel)) =>
              get(Bucket) = Some([kind |-> "IncompatibleWheel",
                                  source_dist |-> compatible_source.v,
                                  wheel |-> incompatible_wheel.v[1]])
        /\ (is_some(compatible_source) /\ is_none(incompatible_wheel)) =>
              get(Bucket) = Some([kind |-> "SourceDist",
                                  sdist |-> compatible_source.v])
        /\ is_none(compatible_source) => get(Bucket) = None

\* A compatible source beside an incompatible wheel and an incompatible
\* source: the hybrid selection.
C3_Witness ==
    /\ is_none(compatible_wheel)
    /\ is_some(compatible_source)
    /\ is_some(incompatible_wheel)
    /\ is_some(incompatible_source)
    /\ get(Bucket).v.kind = "IncompatibleWheel"

(***************************************************************************)
(* C4: for_resolution is the wheel for CompatibleWheel and for             *)
(* IncompatibleWheel and the source for SourceDist; for_installation is    *)
(* the wheel for CompatibleWheel and the source for SourceDist and         *)
(* IncompatibleWheel; the two differ exactly in the IncompatibleWheel      *)
(* case.                                                                   *)
(***************************************************************************)
C4_Projections ==
    LET g == get(Bucket) IN
    is_some(g) =>
        /\ g.v.kind = "CompatibleWheel" =>
              /\ for_resolution(g.v) = g.v.wheel
              /\ for_installation(g.v) = g.v.wheel
        /\ g.v.kind = "IncompatibleWheel" =>
              /\ for_resolution(g.v) = g.v.wheel
              /\ for_installation(g.v) = g.v.source_dist
        /\ g.v.kind = "SourceDist" =>
              /\ for_resolution(g.v) = g.v.sdist
              /\ for_installation(g.v) = g.v.sdist
        /\ (for_resolution(g.v) # for_installation(g.v))
              <=> (g.v.kind = "IncompatibleWheel")

\* Source S (compatible) and wheel W (RequiresPython): resolution uses W,
\* installation uses S.
C4_Witness ==
    /\ is_some(compatible_source)
    /\ is_some(incompatible_wheel)
    /\ incompatible_wheel.v[2].kind = "RequiresPython"
    /\ is_some(get(Bucket))
    /\ get(Bucket).v.kind = "IncompatibleWheel"
    /\ for_resolution(get(Bucket).v) = incompatible_wheel.v[1]
    /\ for_installation(get(Bucket).v) = compatible_source.v

(***************************************************************************)
(* C5: whenever get() returns Some(c), c.for_installation() is an          *)
(* artifact that was inserted with a Compatible verdict, never one         *)
(* inserted with an Incompatible verdict.                                  *)
(***************************************************************************)
C5_InstallationSafety ==
    LET g == get(Bucket) IN
    is_some(g) =>
        /\ \E i \in Calls : /\ calls[i].dist = for_installation(g.v)
                            /\ calls[i].compatibility.kind = "Compatible"
        /\ \A i \in Calls : calls[i].dist = for_installation(g.v) =>
                               calls[i].compatibility.kind # "Incompatible"

\* The selection carries an incompatible wheel, and installation avoids it.
C5_Witness ==
    /\ is_some(get(Bucket))
    /\ get(Bucket).v.kind = "IncompatibleWheel"
    /\ BuiltIncompatible # {}
    /\ SourceIncompatible # {}
    /\ for_installation(get(Bucket).v) \in {calls[i].dist : i \in SourceCompatible}

(***************************************************************************)
(* Replaying the recorded calls, in another order, into a default bucket.  *)
(***************************************************************************)
apply_call(self, call) ==
    IF call.kind = "built"
    THEN insert_built(self, call.dist, call.hash, call.compatibility)
    ELSE insert_source(self, call.dist, call.hash, call.compatibility)

RECURSIVE Replay(_, _)
Replay(self, seq) ==
    IF seq = <<>> THEN self ELSE Replay(apply_call(self, Head(seq)), Tail(seq))

\* The recorded calls in the order given by the permutation p of Calls.
Reordered(p) == [i \in Calls |-> calls[p[i]]]

\* Every reordering of the recorded calls selects what the bucket selects.
SameSelectionInEveryOrder ==
    \A p \in Permutations(Calls) :
        get(Replay(DefaultDist, Reordered(p))) = get(Bucket)

NoPriorityTies ==
    \A i, j \in BuiltCompatible :
        i # j => calls[i].compatibility.priority # calls[j].compatibility.priority

AtMostOneCompatibleSource == Cardinality(SourceCompatible) <= 1

\* Any two incompatible wheels are ordered one way, and one way only.
IncompatibleWheelsStrictlyOrdered ==
    \A i, j \in BuiltIncompatible :
        i # j =>
           IncompatibleWheel_is_more_compatible(
               calls[i].compatibility.incompatibility,
               calls[j].compatibility.incompatibility)
           # IncompatibleWheel_is_more_compatible(
               calls[j].compatibility.incompatibility,
               calls[i].compatibility.incompatibility)

(***************************************************************************)
(* C6 (as claimed): two insertion sequences that are permutations of each  *)
(* other, with no two compatible wheels of equal TagPriority, select the   *)
(* same artifact in get().                                                 *)
(***************************************************************************)
C6_Original == NoPriorityTies => SameSelectionInEveryOrder

(***************************************************************************)
(* C6 (amended): two insertion sequences that are permutations of each     *)
(* other select the same artifact in get(), provided no two compatible     *)
(* wheels have equal TagPriority, at most one source is Compatible, and    *)
(* every two incompatible wheels are strictly ordered by                   *)
(* is_more_compatible (true in exactly one direction).                     *)
(***************************************************************************)
C6_CommutativeModuloTies ==
    (NoPriorityTies /\ AtMostOneCompatibleSource
        /\ IncompatibleWheelsStrictlyOrdered) => SameSelectionInEveryOrder

\* One compatible source and two strictly ordered incompatible wheels: the
\* selection is the hybrid one and names the same wheel in every order.
C6_Witness ==
    /\ Len(calls) = 3
    /\ Cardinality(SourceCompatible) = 1
    /\ Cardinality(BuiltIncompatible) = 2
    /\ IncompatibleWheelsStrictlyOrdered
    /\ get(Bucket).v.kind = "IncompatibleWheel"
    /\ SameSelectionInEveryOrder

(***************************************************************************)
(* C7 (as claimed): if incompatible_wheel holds (_, r), no other           *)
(* incompatible wheel with a reason r' such that r'.is_more_compatible(r)  *)
(* has been inserted; likewise incompatible_source.                        *)
(***************************************************************************)
C7_PreorderMaximum ==
    /\ is_some(incompatible_wheel) =>
          \A i \in BuiltIncompatible :
              calls[i].dist # incompatible_wheel.v[1] =>
                 ~IncompatibleWheel_is_more_compatible(
                     calls[i].compatibility.incompatibility,
                     incompatible_wheel.v[2])
    /\ is_some(incompatible_source) =>
          \A i \in SourceIncompatible :
              calls[i].dist # incompatible_source.v[1] =>
                 ~IncompatibleSource_is_more_compatible(
                     calls[i].compatibility.incompatibility,
                     incompatible_source.v[2])

(***************************************************************************)
(* C8 (as claimed): after insert_built calls with only Tag reasons,        *)
(* incompatible_wheel holds the highest IncompatibleTag inserted, and      *)
(* get() is None.                                                          *)
(***************************************************************************)
OnlyTagReasons ==
    /\ calls # <<>>
    /\ \A i \in Calls : /\ i \in BuiltIncompatible
                        /\ calls[i].compatibility.incompatibility.kind = "Tag"

C8_HighestTagHeld ==
    OnlyTagReasons =>
        /\ is_some(incompatible_wheel)
        /\ incompatible_wheel.v[2].kind = "Tag"
        /\ incompatible_wheel.v[2].tag =
              Max({calls[i].compatibility.incompatibility.tag : i \in Calls})
        /\ get(Bucket) = None

(***************************************************************************)
(* C9 (as claimed): after insertions of incompatible wheels (or of         *)
(* incompatible sources) whose reasons are all ExcludeNewer(Some(t)), the  *)
(* slot holds the smallest timestamp inserted.                             *)
(***************************************************************************)
OnlyKnownExcludeNewer(S) ==
    /\ calls # <<>>
    /\ \A i \in Calls :
          /\ i \in S
          /\ calls[i].compatibility.incompatibility.kind = "ExcludeNewer"
          /\ is_some(calls[i].compatibility.incompatibility.timestamp)

SmallestTimestamp ==
    Min({calls[i].compatibility.incompatibility.timestamp.v : i \in Calls})

C9_SmallestTimestampHeld ==
    /\ OnlyKnownExcludeNewer(BuiltIncompatible) =>
          /\ is_some(incompatible_wheel)
          /\ incompatible_wheel.v[2] =
                [kind |-> "ExcludeNewer", timestamp |-> Some(SmallestTimestamp)]
    /\ OnlyKnownExcludeNewer(SourceIncompatible) =>
          /\ is_some(incompatible_source)
          /\ incompatible_source.v[2] =
                [kind |-> "ExcludeNewer", timestamp |-> Some(SmallestTimestamp)]

(***************************************************************************)
(* C10 (as claimed): an incoming incompatible wheel with reason            *)
(* ExcludeNewer(None) never replaces a held incompatible wheel whose       *)
(* reason is ExcludeNewer(Some(t)).                                        *)
(***************************************************************************)
C10_NoneNeverReplacesSome ==
    [][(/\ is_some(incompatible_wheel)
        /\ incompatible_wheel.v[2].kind = "ExcludeNewer"
        /\ is_some(incompatible_wheel.v[2].timestamp)
        /\ Len(calls') = Len(calls) + 1
        /\ calls'[Len(calls')].kind = "built"
        /\ calls'[Len(calls')].compatibility =
              [kind |-> "Incompatible",
               incompatibility |-> [kind |-> "ExcludeNewer", timestamp |-> None]])
       => incompatible_wheel' = incompatible_wheel]_vars

(***************************************************************************)
(* C11 (as claimed): after incompatible insertions whose reasons are all   *)
(* Yanked, at least one of them carrying Reason(_), the slot holds a       *)
(* reason-bearing yank (wheels and sources alike).                         *)
(***************************************************************************)
OnlyYanked(S) ==
    /\ calls # <<>>
    /\ \A i \in Calls :
          /\ i \in S
          /\ calls[i].compatibility.incompatibility.kind = "Yanked"
    /\ \E i \in Calls :
          calls[i].compatibility.incompatibility.yanked.kind = "Reason"

C11_ReasonBearingYankHeld ==
    /\ OnlyYanked(BuiltIncompatible) =>
          /\ is_some(incompatible_wheel)
          /\ incompatible_wheel.v[2].kind = "Yanked"
          /\ incompatible_wheel.v[2].yanked.kind = "Reason"
    /\ OnlyYanked(SourceIncompatible) =>
          /\ is_some(incompatible_source)
          /\ incompatible_source.v[2].kind = "Yanked"
          /\ incompatible_source.v[2].yanked.kind = "Reason"

(***************************************************************************)
(* The rank of a reason's kind: ExcludeNewer > Tag > RequiresPython >      *)
(* Yanked > NoBinary for wheels, ExcludeNewer > RequiresPython > Yanked >  *)
(* NoBuild for sources.                                                    *)
(***************************************************************************)
WheelKindRank(kind) ==
    CASE kind = "ExcludeNewer" -> 5
      [] kind = "Tag" -> 4
      [] kind = "RequiresPython" -> 3
      [] kind = "Yanked" -> 2
      [] kind = "NoBinary" -> 1

SourceKindRank(kind) ==
    CASE kind = "ExcludeNewer" -> 4
      [] kind = "RequiresPython" -> 3
      [] kind = "Yanked" -> 2
      [] kind = "NoBuild" -> 1

ReasonOf(i) == calls[i].compatibility.incompatibility

(***************************************************************************)
(* C12: the kind of the reason held in incompatible_wheel is the           *)
(* highest-ranked kind among all incompatible wheels inserted, likewise    *)
(* incompatible_source; a held NoBinary / NoBuild reason is the one of the *)
(* first incompatible insertion, since such a reason never displaces a     *)
(* held one.                                                               *)
(***************************************************************************)
C12_HighestKindHeld ==
    /\ BuiltIncompatible # {} =>
          /\ is_some(incompatible_wheel)
          /\ WheelKindRank(incompatible_wheel.v[2].kind) =
                Max({WheelKindRank(ReasonOf(i).kind) : i \in BuiltIncompatible})
          /\ \A i \in BuiltIncompatible :
                (ReasonOf(i).kind = "NoBinary" /\ i # Min(BuiltIncompatible))
                   => incompatible_wheel.v[1] # calls[i].dist
    /\ SourceIncompatible # {} =>
          /\ is_some(incompatible_source)
          /\ SourceKindRank(incompatible_source.v[2].kind) =
                Max({SourceKindRank(ReasonOf(i).kind) : i \in SourceIncompatible})
          /\ \A i \in SourceIncompatible :
                (ReasonOf(i).kind = "NoBuild" /\ i # Min(SourceIncompatible))
                   => incompatible_source.v[1] # calls[i].dist

\* A NoBuild source, then a Yanked(Reason) source that displaces it, then a
\* NoBuild source that is dropped.
C12_Witness ==
    /\ Len(calls) = 3
    /\ SourceIncompatible = {1, 2, 3}
    /\ ReasonOf(1).kind = "NoBuild"
    /\ ReasonOf(2) = [kind |-> "Yanked",
                      yanked |-> [kind |-> "Reason", reason |-> "broken"]]
    /\ ReasonOf(3).kind = "NoBuild"
    /\ incompatible_source = Some(<<calls[2].dist, ReasonOf(2)>>)

RequiresPythonCalls(S) == {i \in S : ReasonOf(i).kind = "RequiresPython"}

(***************************************************************************)
(* C13: for any two RequiresPython reasons inserted, is_more_compatible is *)
(* false in both directions (wheels and sources), and a slot that holds a  *)
(* RequiresPython reason holds the first RequiresPython artifact inserted. *)
(***************************************************************************)
C13_RequiresPythonFirstWins ==
    /\ \A i, j \in RequiresPythonCalls(BuiltIncompatible) :
          ~IncompatibleWheel_is_more_compatible(ReasonOf(i), ReasonOf(j))
    /\ \A i, j \in RequiresPythonCalls(SourceIncompatible) :
          ~IncompatibleSource_is_more_compatible(ReasonOf(i), ReasonOf(j))
    /\ (is_some(incompatible_wheel)
          /\ incompatible_wheel.v[2].kind = "RequiresPython") =>
          incompatible_wheel.v =
             <<calls[Min(RequiresPythonCalls(BuiltIncompatible))].dist,
               ReasonOf(Min(RequiresPythonCalls(BuiltIncompatible)))>>
    /\ (is_some(incompatible_source)
          /\ incompatible_source.v[2].kind = "RequiresPython") =>
          incompatible_source.v =
             <<calls[Min(RequiresPythonCalls(SourceIncompatible))].dist,
               ReasonOf(Min(RequiresPythonCalls(SourceIncompatible)))>>

\* Two RequiresPython wheels with different specifiers, then a third equal to
\* the first; the first is still held.
C13_Witness ==
    /\ Len(calls) = 3
    /\ RequiresPythonCalls(BuiltIncompatible) = {1, 2, 3}
    /\ ReasonOf(1).specifiers # ReasonOf(2).specifiers
    /\ ReasonOf(3) = ReasonOf(1)
    /\ incompatible_wheel = Some(<<calls[1].dist, ReasonOf(1)>>)

IncompatibleCalls == BuiltIncompatible \cup SourceIncompatible

(***************************************************************************)
(* C14 (as claimed): the relation is irreflexive and antisymmetric on the  *)
(* reasons inserted: no reason is more compatible than itself, and no two  *)
(* reasons are each more compatible than the other; for wheels and for     *)
(* sources.                                                                *)
(***************************************************************************)
C14_IrreflexiveAntisymmetric ==
    /\ \A i, j \in BuiltIncompatible :
          ~(/\ IncompatibleWheel_is_more_compatible(ReasonOf(i), ReasonOf(j))
            /\ IncompatibleWheel_is_more_compatible(ReasonOf(j), ReasonOf(i)))
    /\ \A i, j \in SourceIncompatible :
          ~(/\ IncompatibleSource_is_more_compatible(ReasonOf(i), ReasonOf(j))
            /\ IncompatibleSource_is_more_compatible(ReasonOf(j), ReasonOf(i)))

\* The reason of a call read as a wheel reason / as a source reason
\* (NoBinary and NoBuild correspond).
AsWheelReason(r) == IF r.kind = "NoBuild" THEN [kind |-> "NoBinary"] ELSE r
AsSourceReason(r) == IF r.kind = "NoBinary" THEN [kind |-> "NoBuild"] ELSE r

(***************************************************************************)
(* C15 (as claimed): on every pair of inserted reasons of the shared kinds *)
(* (every kind but Tag, NoBinary read as NoBuild), the source relation and *)
(* the wheel relation return the same boolean.                             *)
(***************************************************************************)
C15_SameShape ==
    \A i, j \in IncompatibleCalls :
       (ReasonOf(i).kind # "Tag" /\ ReasonOf(j).kind # "Tag") =>
          (IncompatibleWheel_is_more_compatible(AsWheelReason(ReasonOf(i)),
                                                AsWheelReason(ReasonOf(j)))
             <=>
           IncompatibleSource_is_more_compatible(AsSourceReason(ReasonOf(i)),
                                                 AsSourceReason(ReasonOf(j))))

(***************************************************************************)
(* C16: compatible_source holds the first source inserted with verdict     *)
(* Compatible, and is None when there was none; since the history only     *)
(* grows, no later insert_built / insert_source changes it once set.       *)
(***************************************************************************)
C16_CompatibleSourceFirstWins ==
    compatible_source =
       IF SourceCompatible = {} THEN None
       ELSE Some(calls[Min(SourceCompatible)].dist)

\* Two compatible sources with a wheel insertion in between.
C16_Witness ==
    /\ Len(calls) = 3
    /\ SourceCompatible = {1, 3}
    /\ calls[2].kind = "built"
    /\ compatible_source = Some(calls[1].dist)

RECURSIVE SuppliedHashes(_)
\* The digests supplied by calls 1..n, in call order.
SuppliedHashes(n) ==
    IF n = 0 THEN <<>>
    ELSE IF is_some(calls[n].hash)
         THEN Append(SuppliedHashes(n - 1), calls[n].hash.v)
         ELSE SuppliedHashes(n - 1)

(***************************************************************************)
(* C17: hashes is exactly the sequence of digests supplied by the calls so *)
(* far, in call order and with duplicates, whether or not the call's       *)
(* artifact was retained in a slot.                                        *)
(***************************************************************************)
C17_HashesAreSuppliedHashes ==
    /\ hashes = SuppliedHashes(Len(calls))
    /\ Len(hashes) = Cardinality({i \in Calls : is_some(calls[i].hash)})

\* The same digest supplied twice and a call without a digest in between;
\* the third call's wheel has a lower priority and is not retained.
C17_Witness ==
    /\ Len(calls) = 3
    /\ BuiltCompatible = {1, 3}
    /\ calls[1].compatibility.priority > calls[3].compatibility.priority
    /\ is_none(calls[2].hash)
    /\ calls[1].hash = Some("sha256:aa")
    /\ calls[3].hash = Some("sha256:aa")
    /\ compatible_wheel.v[1] = calls[1].dist
    /\ hashes = <<"sha256:aa", "sha256:aa">>

(***************************************************************************)
(* C18: in every step the priority held in compatible_wheel does not       *)
(* decrease, and each of the four slots that is Some stays Some.           *)
(***************************************************************************)
C18_Monotone ==
    [][/\ is_some(compatible_wheel) =>
             /\ is_some(compatible_wheel')
             /\ compatible_wheel'.v[2] >= compatible_wheel.v[2]
       /\ is_some(compatible_source) => is_some(compatible_source')
       /\ is_some(incompatible_wheel) => is_some(incompatible_wheel')
       /\ is_some(incompatible_source) => is_some(incompatible_source')]_vars

\* A compatible wheel of lower priority arrived after one of higher priority
\* and was refused.
C18_Witness ==
    /\ \E i, j \in BuiltCompatible :
          /\ i < j
          /\ calls[i].compatibility.priority > calls[j].compatibility.priority
          /\ compatible_wheel = Some(<<calls[i].dist, calls[i].compatibility.priority>>)
    /\ Len(calls) = MaxCalls

(***************************************************************************)
(* C20: is_empty() is true iff all four slots are None, whatever hashes    *)
(* holds; it is true of the default bucket and false once any constructor  *)
(* or insertion call has been made.                                        *)
(***************************************************************************)
C20_EmptyIffNoSlot ==
    /\ is_empty(Bucket) <=>
          /\ compatible_source = None
          /\ compatible_wheel = None
          /\ incompatible_wheel = None
          /\ incompatible_source = None
    /\ is_empty(Bucket) <=> calls = <<>>
    /\ is_empty(DefaultDist)

\* Only incompatible_source is set and no call supplied a digest: the bucket
\* is not empty although hashes is.
C20_Witness ==
    /\ calls # <<>>
    /\ hashes = <<>>
    /\ is_some(incompatible_source)
    /\ compatible_source = None
    /\ compatible_wheel = None
    /\ incompatible_wheel = None
    /\ ~is_empty(Bucket)

\* Whether the write of slot `after` overwrote a set slot `before`.
replaced(before, after) == is_some(before) /\ after # before

\* Whether that overwrite changed the kind of the held reason.
kind_changed(before, after) ==
    replaced(before, after) /\ after.v[2].kind # before.v[2].kind

RECURSIVE Progress(_)
\* The bucket after the first n recorded calls, with the number of times each
\* incompatible slot was overwritten, the number of those overwrites that
\* changed the kind of the reason, and whether every such change raised the
\* rank of the kind.
Progress(n) ==
    IF n = 0
    THEN [bucket |-> DefaultDist,
          wheel_replacements |-> 0, wheel_kind_changes |-> 0,
          source_replacements |-> 0, source_kind_changes |-> 0,
          rank_raised |-> TRUE]
    ELSE LET prev == Progress(n - 1)
             was == prev.bucket
             now == apply_call(was, calls[n])
             w0 == was.incompatible_wheel
             w1 == now.incompatible_wheel
             s0 == was.incompatible_source
             s1 == now.incompatible_source
         IN [bucket |-> now,
             wheel_replacements |->
                prev.wheel_replacements + (IF replaced(w0, w1) THEN 1 ELSE 0),
             wheel_kind_changes |->
                prev.wheel_kind_changes + (IF kind_changed(w0, w1) THEN 1 ELSE 0),
             source_replacements |->
                prev.source_replacements + (IF replaced(s0, s1) THEN 1 ELSE 0),
             source_kind_changes |->
                prev.source_kind_changes + (IF kind_changed(s0, s1) THEN 1 ELSE 0),
             rank_raised |->
                /\ prev.rank_raised
                /\ kind_changed(w0, w1) =>
                      WheelKindRank(w1.v[2].kind) > WheelKindRank(w0.v[2].kind)
                /\ kind_changed(s0, s1) =>
                      SourceKindRank(s1.v[2].kind) > SourceKindRank(s0.v[2].kind)]

\* No inserted reason is more compatible than the held one without the held
\* one being more compatible than it.
HeldIsMaximal ==
    /\ \A i \in BuiltIncompatible :
          IncompatibleWheel_is_more_compatible(ReasonOf(i), incompatible_wheel.v[2])
             => IncompatibleWheel_is_more_compatible(incompatible_wheel.v[2], ReasonOf(i))
    /\ \A i \in SourceIncompatible :
          IncompatibleSource_is_more_compatible(ReasonOf(i), incompatible_source.v[2])
             => IncompatibleSource_is_more_compatible(incompatible_source.v[2], ReasonOf(i))

SlotsSet(b) ==
    Cardinality({f \in {"compatible_source", "compatible_wheel",
                        "incompatible_wheel", "incompatible_source"} :
                    is_some(b[f])})

\* The bucket a constructor makes of call c, and the default bucket after the
\* insertion of c.
Seeded(c) ==
    IF c.kind = "built"
    THEN from_built(c.dist, c.hash, c.compatibility)
    ELSE from_source(c.dist, c.hash, c.compatibility)

InsertedIntoDefault(c) == apply_call(DefaultDist, c)

(***************************************************************************)
(* C21: from_built(d, h, v) is the bucket that insert_built(d, h, v) makes *)
(* of the default bucket, in all four slots and in hashes, with exactly    *)
(* one slot set, a wheel slot chosen by v; likewise from_source and        *)
(* insert_source with a source slot.  Stated on the first call of every    *)
(* run, whose resulting bucket is the state after one call.                *)
(***************************************************************************)
C21_SeedingIsInserting ==
    calls # <<>> =>
       LET c == calls[1]
           b == Seeded(c)
       IN /\ b = InsertedIntoDefault(c)
          /\ Len(calls) = 1 => Bucket = b
          /\ SlotsSet(b) = 1
          /\ c.kind = "built" =>
                IF c.compatibility.kind = "Compatible"
                THEN b.compatible_wheel = Some(<<c.dist, c.compatibility.priority>>)
                ELSE b.incompatible_wheel =
                        Some(<<c.dist, c.compatibility.incompatibility>>)
          /\ c.kind = "source" =>
                IF c.compatibility.kind = "Compatible"
                THEN b.compatible_source = Some(c.dist)
                ELSE b.incompatible_source =
                        Some(<<c.dist, c.compatibility.incompatibility>>)
          /\ b.hashes = hash_vec(c.hash)

\* One call with a digest and an Incompatible wheel verdict.
C21_Witness ==
    /\ Len(calls) = 1
    /\ calls[1].kind = "built"
    /\ is_some(calls[1].hash)
    /\ calls[1].compatibility.kind = "Incompatible"
    /\ is_some(incompatible_wheel)
    /\ hashes = <<calls[1].hash.v>>

\* The position of an observable state in the order None, SourceDist,
\* IncompatibleWheel, CompatibleWheel.
ObservableRank(o) ==
    CASE is_none(o) -> 0
      [] is_some(o) /\ o.v.kind = "SourceDist" -> 1
      [] is_some(o) /\ o.v.kind = "IncompatibleWheel" -> 2
      [] is_some(o) /\ o.v.kind = "CompatibleWheel" -> 3

(***************************************************************************)
(* C22: in every step the observable state get() does not move backwards   *)
(* in the order None, SourceDist, IncompatibleWheel, CompatibleWheel.      *)
(***************************************************************************)
C22_ObservableStateMovesForward ==
    [][ObservableRank(get(Bucket')) >= ObservableRank(get(Bucket))]_vars

\* A run that passed through SourceDist and IncompatibleWheel and reached
\* CompatibleWheel.
C22_Witness ==
    /\ Len(calls) = 3
    /\ ObservableRank(get(Replay(DefaultDist, SubSeq(calls, 1, 1)))) = 1
    /\ ObservableRank(get(Replay(DefaultDist, SubSeq(calls, 1, 2)))) = 2
    /\ ObservableRank(get(Bucket)) = 3

\* The call made by the step being taken.
NewCall == calls'[Len(calls')]

(***************************************************************************)
(* C23: in every step, insert_built leaves both source slots unchanged and *)
(* insert_source both wheel slots; a Compatible verdict leaves both        *)
(* incompatible slots unchanged and an Incompatible verdict both           *)
(* compatible slots; hashes changes only by appending the supplied hash.   *)
(***************************************************************************)
C23_Frame ==
    [][/\ NewCall.kind = "built" =>
             /\ compatible_source' = compatible_source
             /\ incompatible_source' = incompatible_source
       /\ NewCall.kind = "source" =>
             /\ compatible_wheel' = compatible_wheel
             /\ incompatible_wheel' = incompatible_wheel
       /\ NewCall.compatibility.kind = "Compatible" =>
             /\ incompatible_wheel' = incompatible_wheel
             /\ incompatible_source' = incompatible_source
       /\ NewCall.compatibility.kind = "Incompatible" =>
             /\ compatible_wheel' = compatible_wheel
             /\ compatible_source' = compatible_source
       /\ hashes' = IF is_some(NewCall.hash)
                    THEN Append(hashes, NewCall.hash.v)
                    ELSE hashes]_vars

\* A compatible wheel inserted without a digest into a bucket that holds an
\* incompatible wheel and a source.
C23_Witness ==
    /\ Len(calls) = 3
    /\ calls[3].kind = "built"
    /\ calls[3].compatibility.kind = "Compatible"
    /\ is_none(calls[3].hash)
    /\ is_some(incompatible_wheel)
    /\ is_some(compatible_source)
    /\ is_some(compatible_wheel)
    /\ Len(hashes) = 2

(***************************************************************************)
(* `uv python uninstall`                                                   *)
(* crates/uv/src/commands/python/uninstall.rs                              *)
(*                                                                         *)
(* fs is the file system the command works on: dirs, the installation      *)
(* keys whose directory exists under the installations root; links, for    *)
(* each minor version the installation its minor-version link points to;   *)
(* bin, the entries of the Python executable directory; root, whether the  *)
(* installations root exists.  lock is the run holding the                 *)
(* managed-installations lock (0: free).  proc[p] is the state of run p:   *)
(* its arguments, its position (pc), the locals of do_uninstall, the       *)
(* ExitStatus do_uninstall returned (status) and the one uninstall         *)
(* returned (exit).  The #[cfg(windows)] registry calls are not compiled   *)
(* on the modelled target.                                                 *)
(***************************************************************************)
MinorVersions == 1..MaxMinor

\* PythonInstallationKey: <<minor, patch>> of cpython-3.<minor>.<patch>.
PythonInstallationKey == MinorVersions \X (1..MaxPatch)

NoKey == <<0, 0>>

\* PythonInstallationMinorVersionKey::ref_cast / minor_version_key
minor_version_key(key) == key[1]

\* "python", "python3", "python3.<minor>"
executable_name(key) == [stem |-> "python", minor |-> 0]
executable_name_major(key) == [stem |-> "python3", minor |-> 0]
executable_name_minor(key) == [stem |-> "python3.", minor |-> key[1]]

ExecutableNames ==
    UNION {{executable_name(k), executable_name_major(k),
            executable_name_minor(k)} : k \in PythonInstallationKey}

\* The position of a file name in the sorted order of paths.
NameRank(name) ==
    CASE name.stem = "pip" -> 0
      [] name.stem = "python" -> 1
      [] name.stem = "python3" -> 2
      [] name.stem = "python3." -> 2 + name.minor

\* PythonRequest::parse(target): a version request (patch 0: any patch), the
\* default request, or a path to an interpreter.
PythonRequest ==
    {[kind |-> "Version", minor |-> m, patch |-> q] :
        m \in MinorVersions, q \in 0..MaxPatch}
    \cup {[kind |-> "Default"], [kind |-> "File"]}

\* PythonDownloadRequest::from_request: None for a request that does not
\* name a managed Python.
from_request(request) ==
    IF request.kind = "File" THEN None ELSE Some(request)

\* PythonDownloadRequest::satisfied_by_key
satisfied_by_key(download_request, key) ==
    CASE download_request.kind = "Default" -> TRUE
      [] download_request.kind = "Version" ->
            /\ download_request.minor = key[1]
            /\ download_request.patch \in {0, key[2]}

\* ManagedPythonInstallation::is_bin_link: the entry is a link to the
\* executable of this installation.
is_bin_link(installation, entry) == entry.link = installation

\* PythonInstallationMinorVersionKey::highest_installations_by_minor_version_key
highest_installations_by_minor_version_key(installations) ==
    [m \in {minor_version_key(k) : k \in installations} |->
        <<m, Max({k[2] : k \in {x \in installations : minor_version_key(x) = m}})>>]

\* The elements of a Vec / IndexSet.
Elements(seq) == {seq[i] : i \in 1..Len(seq)}

\* let requests = if all { vec![PythonRequest::Default] } else { targets... }
requests_of(all, targets) == IF all THEN {[kind |-> "Default"]} ELSE targets

\* Mutant: an installation must satisfy every request.
matching_of_every_request(requests, installed_installations) ==
    {k \in installed_installations :
        \A r \in requests : satisfied_by_key(from_request(r).v, k)}

\* The installations that satisfy some request.
matching_of(requests, installed_installations) ==
    {k \in installed_installations :
        \E r \in requests : satisfied_by_key(from_request(r).v, k)}

\* The entries of the executable directory that pass the two filters: not a
\* directory, and named like an executable of a matching installation.
executable_candidates(bin, matching_installations) ==
    {e \in bin :
        /\ ~e.is_dir
        /\ \E k \in matching_installations :
              e.name \in {executable_name_minor(k), executable_name_major(k),
                          executable_name(k)}}

\* Mutant: every candidate is removed, whatever it links to.
executables_to_remove_by_name(bin, matching_installations) ==
    executable_candidates(bin, matching_installations)

\* Those of the candidates that are a bin link of a matching installation.
executables_to_remove(bin, matching_installations) ==
    {e \in executable_candidates(bin, matching_installations) :
        \E k \in matching_installations : is_bin_link(k, e)}

\* Mutant: the uninstalled installations are not filtered out.
remaining_installations_unfiltered(installed_installations, uninstalled) ==
    installed_installations

\* remaining_installations: the installations found at the start that are
\* not in `uninstalled`.
remaining_installations(installed_installations, uninstalled) ==
    installed_installations \ Elements(uninstalled)

\* The links after the update_minor_version_link loop.
updated_links(links, installed_installations, uninstalled) ==
    LET remaining_minor_versions ==
           highest_installations_by_minor_version_key(
              remaining_installations(installed_installations, uninstalled))
        uninstalled_minor_versions ==
           {minor_version_key(k) : k \in Elements(uninstalled)}
    IN [m \in MinorVersions |->
           IF m \in DOMAIN remaining_minor_versions
              /\ m \in uninstalled_minor_versions
           THEN remaining_minor_versions[m]
           ELSE links[m]]

\* The minor versions whose link the last loop removes.
links_to_remove(links, installed_installations, matching_installations, uninstalled) ==
    LET remaining_minor_versions ==
           highest_installations_by_minor_version_key(
              remaining_installations(installed_installations, uninstalled))
    IN {m \in {minor_version_key(k) : k \in matching_installations} :
           /\ m \notin DOMAIN remaining_minor_versions
           /\ links[m] # NoKey}

\* Mutant: the errors are reported but the status is Success.
final_status_ignores_errors(errors) == "Success"

\* if !errors.is_empty() { return Ok(ExitStatus::Failure) } Ok(ExitStatus::Success)
final_status(errors) == IF errors # <<>> THEN "Failure" ELSE "Success"

\* uninstall: `do_uninstall(..).await?;` propagates an error and drops any
\* other result; the function ends with Ok(ExitStatus::Success).
uninstall_exit(status) == IF status = "Err" THEN "Err" ELSE "Success"

\* Mutant: `let _ = installations.lock().await?;` drops the guard at once.
lock_guard_dropped(p) == 0

\* let _lock = installations.lock().await?; the guard lives until uninstall
\* returns.
lock_guard(p) == p

\* ManagedPythonInstallations::lock: an exclusive lock, granted when no run
\* holds it.
lock_available(holder) == holder = 0

\* Clean up any empty directories: the root is removed when it holds no
\* directory.
root_after_cleanup(f) ==
    ~(f.dirs = {} /\ \A m \in MinorVersions : f.links[m] = NoKey)

\* The state of a run before its first step.
NewRun(all, targets) ==
    [pc |-> "start", all |-> all, targets |-> targets,
     installed_installations |-> {}, matching_installations |-> {},
     tasks |-> {}, uninstalled |-> <<>>, errors |-> <<>>,
     uninstalled_executables |-> {}, status |-> "None", exit |-> "None"]

\* do_uninstall returns `status` to uninstall.
Returned(run, status) == [run EXCEPT !.pc = "returned", !.status = status]

\* ManagedPythonInstallations::from_settings(install_dir)?.init()?
InitRoot(p) ==
    /\ proc[p].pc = "start"
    /\ fs' = [fs EXCEPT !.root = TRUE]
    /\ proc' = [proc EXCEPT ![p].pc = "lock"]
    /\ UNCHANGED <<lock, bucket_vars, venv_vars, libc_vars>>

\* let _lock = installations.lock().await?;
AcquireLock(p) ==
    /\ proc[p].pc = "lock"
    /\ lock_available(lock)
    /\ lock' = lock_guard(p)
    /\ proc' = [proc EXCEPT ![p].pc = "search"]
    /\ UNCHANGED <<fs, bucket_vars, venv_vars, libc_vars>>

\* do_uninstall up to `if matching_installations.is_empty()`.
Search(p) ==
    /\ proc[p].pc = "search"
    /\ LET run == proc[p]
           requests == requests_of(run.all, run.targets)
           installed_installations == fs.dirs
           matching_installations ==
              matching_of(requests, installed_installations)
       IN proc' = [proc EXCEPT ![p] =
             IF \E r \in requests : is_none(from_request(r))
             THEN Returned(run, "Err")
             ELSE IF matching_installations = {}
             THEN Returned([run EXCEPT !.installed_installations =
                                          installed_installations],
                           "Failure")
             ELSE [run EXCEPT !.pc = "executables",
                              !.installed_installations = installed_installations,
                              !.matching_installations = matching_installations]]
    /\ UNCHANGED <<fs, lock, bucket_vars, venv_vars, libc_vars>>

\* Find and remove all relevant Python executables, then push one removal
\* task per matching installation.
RemoveExecutables(p) ==
    /\ proc[p].pc = "executables"
    /\ LET run == proc[p]
           removed == executables_to_remove(fs.bin, run.matching_installations)
       IN /\ fs' = [fs EXCEPT !.bin = @ \ removed]
          /\ proc' = [proc EXCEPT ![p] =
                [run EXCEPT !.pc = "await",
                            !.uninstalled_executables =
                               {<<e.link, e.name>> : e \in removed},
                            !.tasks = run.matching_installations]]
    /\ UNCHANGED <<lock, bucket_vars, venv_vars, libc_vars>>

\* fs_err::remove_file(&executable)? fails at entry e: the entries sorted
\* before e are gone and do_uninstall returns the error.
RemoveExecutableFails(p) ==
    /\ proc[p].pc = "executables"
    /\ LET run == proc[p]
           removed == executables_to_remove(fs.bin, run.matching_installations)
       IN \E e \in removed :
             /\ fs' = [fs EXCEPT !.bin =
                          @ \ {x \in removed : NameRank(x.name) < NameRank(e.name)}]
             /\ proc' = [proc EXCEPT ![p] = Returned(run, "Err")]
    /\ UNCHANGED <<lock, bucket_vars, venv_vars, libc_vars>>

\* tasks.next().await yields (key, Ok(())): the directory is gone.
TaskSucceeds(p) ==
    /\ proc[p].pc = "await"
    /\ \E key \in proc[p].tasks :
          /\ fs' = [fs EXCEPT !.dirs = @ \ {key}]
          /\ proc' = [proc EXCEPT ![p].tasks = @ \ {key},
                                  ![p].uninstalled = Append(@, key)]
    /\ UNCHANGED <<lock, bucket_vars, venv_vars, libc_vars>>

\* tasks.next().await yields (key, Err(err)).
TaskFails(p) ==
    /\ proc[p].pc = "await"
    /\ \E key \in proc[p].tasks :
          proc' = [proc EXCEPT ![p].tasks = @ \ {key},
                               ![p].errors = Append(@, key)]
    /\ UNCHANGED <<fs, lock, bucket_vars, venv_vars, libc_vars>>

\* After the last task: the minor-version links, the report and the status.
Finish(p) ==
    /\ proc[p].pc = "await"
    /\ proc[p].tasks = {}
    /\ LET run == proc[p]
           links == updated_links(fs.links, run.installed_installations,
                                  run.uninstalled)
           gone == links_to_remove(links, run.installed_installations,
                                   run.matching_installations, run.uninstalled)
       IN /\ fs' = [fs EXCEPT !.links =
                       [m \in MinorVersions |->
                           IF m \in gone THEN NoKey ELSE links[m]]]
          /\ proc' = [proc EXCEPT ![p] = Returned(run, final_status(run.errors))]
    /\ UNCHANGED <<lock, bucket_vars, venv_vars, libc_vars>>

\* "Failed to remove symlink directory": the removal of the link of minor
\* version m fails; the links of the matching installations before it are
\* gone and do_uninstall returns the error.
FinishLinkRemovalFails(p) ==
    /\ proc[p].pc = "await"
    /\ proc[p].tasks = {}
    /\ LET run == proc[p]
           links == updated_links(fs.links, run.installed_installations,
                                  run.uninstalled)
           gone == links_to_remove(links, run.installed_installations,
                                   run.matching_installations, run.uninstalled)
       IN \E m \in gone :
             /\ fs' = [fs EXCEPT !.links =
                          [x \in MinorVersions |->
                              IF x \in gone /\ x < m THEN NoKey ELSE links[x]]]
             /\ proc' = [proc EXCEPT ![p] = Returned(run, "Err")]
    /\ UNCHANGED <<lock, bucket_vars, venv_vars, libc_vars>>

\* uninstall after do_uninstall: the `?`, the clean-up of empty directories,
\* the return value, and the drop of the lock guard.
Return(p) ==
    /\ proc[p].pc = "returned"
    /\ fs' = IF proc[p].status = "Err" THEN fs
             ELSE [fs EXCEPT !.root = root_after_cleanup(fs)]
    /\ proc' = [proc EXCEPT ![p].pc = "done",
                            ![p].exit = uninstall_exit(proc[p].status)]
    /\ lock' = IF lock = p THEN 0 ELSE lock
    /\ UNCHANGED <<bucket_vars, venv_vars, libc_vars>>

Runs == DOMAIN proc

NextUninstall ==
    \/ \E p \in Runs : InitRoot(p)
    \/ \E p \in Runs : AcquireLock(p)
    \/ \E p \in Runs : Search(p)
    \/ \E p \in Runs : RemoveExecutables(p)
    \/ \E p \in Runs : RemoveExecutableFails(p)
    \/ \E p \in Runs : TaskSucceeds(p)
    \/ \E p \in Runs : TaskFails(p)
    \/ \E p \in Runs : Finish(p)
    \/ \E p \in Runs : FinishLinkRemovalFails(p)
    \/ \E p \in Runs : Return(p)

\* The bucket of the first part stays as constructed.
NoBucket ==
    /\ compatible_source = DefaultDist.compatible_source
    /\ compatible_wheel = DefaultDist.compatible_wheel
    /\ incompatible_wheel = DefaultDist.incompatible_wheel
    /\ incompatible_source = DefaultDist.incompatible_source
    /\ hashes = DefaultDist.hashes
    /\ calls = <<>>

\* No call of detect_virtual_env is made.
NoDetect ==
    /\ environ = [VIRTUAL_ENV |-> None, CONDA_PREFIX |-> None]
    /\ dot_venvs = <<>>
    /\ detect = [pc |-> "idle"]

\* No call of detect_linux_libc is made.
NoLibc ==
    /\ system = <<>>
    /\ libc = [pc |-> "idle"]

\* The minor-version links a set of installations can have: none, or a link
\* to an installation of that minor version.
LinksOf(dirs) ==
    {l \in [MinorVersions -> PythonInstallationKey \cup {NoKey}] :
        \A m \in MinorVersions :
           l[m] # NoKey => (l[m] \in dirs /\ minor_version_key(l[m]) = m)}

\* The highest installation of a nonempty set.
Highest(installations) ==
    CHOOSE k \in installations :
       \A x \in installations :
          x[1] < k[1] \/ (x[1] = k[1] /\ x[2] <= k[2])

\* The executable directory as `uv python install` leaves it: python3.<minor>
\* links to the highest patch of each minor version, python3 and python to
\* the highest installation.
InstalledBin(dirs) ==
    {[name |-> executable_name_minor(k), is_dir |-> FALSE, link |-> k] :
        k \in {x \in dirs :
                 x = highest_installations_by_minor_version_key(dirs)[x[1]]}}
    \cup (IF dirs = {} THEN {}
          ELSE {[name |-> executable_name_major(Highest(dirs)),
                 is_dir |-> FALSE, link |-> Highest(dirs)],
                [name |-> executable_name(Highest(dirs)),
                 is_dir |-> FALSE, link |-> Highest(dirs)]})

\* bin with the entries `entries` put in place of those of the same name.
WithEntries(bin, entries) ==
    {e \in bin : \A x \in entries : x.name # e.name} \cup entries

\* The executable directories a run can find: as installed; or with a
\* directory in the place of python3.1; or with the user's own file in the
\* place of python and a link of another name into an installation.
BinDirs(dirs) ==
    {InstalledBin(dirs),
     WithEntries(InstalledBin(dirs),
                 {[name |-> [stem |-> "python3.", minor |-> 1],
                   is_dir |-> TRUE, link |-> NoKey]}),
     WithEntries(InstalledBin(dirs),
                 {[name |-> [stem |-> "python", minor |-> 0],
                   is_dir |-> FALSE, link |-> NoKey]}
                 \cup (IF dirs = {} THEN {}
                       ELSE {[name |-> [stem |-> "pip", minor |-> 0],
                              is_dir |-> FALSE, link |-> Highest(dirs)]}))}

\* The command line: --all, or one to MaxTargets targets.
Arguments ==
    {<<TRUE, {}>>}
    \cup {<<FALSE, t>> : t \in {x \in SUBSET PythonRequest :
                                  Cardinality(x) \in 1..MaxTargets}}

\* One run, on any set of installations.
InitUninstall ==
    /\ NoBucket
    /\ NoDetect
    /\ NoLibc
    /\ \E dirs \in SUBSET PythonInstallationKey :
          \E l \in LinksOf(dirs), bin \in BinDirs(dirs) :
             fs = [dirs |-> dirs, links |-> l, bin |-> bin, root |-> dirs # {}]
    /\ lock = 0
    /\ \E a \in Arguments : proc = <<NewRun(a[1], a[2])>>

SpecUninstall == InitUninstall /\ [][NextUninstall]_vars

\* Two concurrent runs, each with one version target, on a directory that
\* holds every installation with its links and executables.
InitTwoUninstalls ==
    /\ NoBucket
    /\ NoDetect
    /\ NoLibc
    /\ fs = [dirs |-> PythonInstallationKey,
             links |-> highest_installations_by_minor_version_key(PythonInstallationKey),
             bin |-> InstalledBin(PythonInstallationKey),
             root |-> TRUE]
    /\ lock = 0
    /\ \E t1, t2 \in {r \in PythonRequest : r.kind = "Version"} :
          proc = <<NewRun(FALSE, {t1}), NewRun(FALSE, {t2})>>

SpecTwoUninstalls == InitTwoUninstalls /\ [][NextUninstall]_vars

\* do_uninstall has returned an ExitStatus to run p after its removal tasks.
RemovalsReported(p) ==
    /\ proc[p].pc \in {"returned", "done"}
    /\ proc[p].status \in {"Success", "Failure"}
    /\ proc[p].matching_installations # {}

(***************************************************************************)
(* C24 (as claimed): if do_uninstall returned Failure, uninstall returns   *)
(* Failure; uninstall returns Success only when every matching             *)
(* installation was removed.                                               *)
(***************************************************************************)
C24_FailureIsReported ==
    \A p \in Runs :
       proc[p].pc = "done" =>
          /\ proc[p].status = "Failure" => proc[p].exit = "Failure"
          /\ proc[p].exit = "Success" =>
                /\ proc[p].matching_installations # {}
                /\ Elements(proc[p].uninstalled) = proc[p].matching_installations

InstalledOfMinor(m) == {k \in fs.dirs : minor_version_key(k) = m}

SearchedRequests(p) ==
    IF \E r \in requests_of(proc[p].all, proc[p].targets) : r.kind = "File"
    THEN {}
    ELSE requests_of(proc[p].all, proc[p].targets)

\* The installations found by run p that request r matches.
MatchesOf(p, r) ==
    {k \in proc[p].installed_installations : satisfied_by_key(r, k)}

(***************************************************************************)
(* C28: once a run has searched for its requests, the matching             *)
(* installations are those matched by any request, so a target that        *)
(* matches nothing does not keep the installations of the other targets    *)
(* from being removed (each ends in `uninstalled` or `errors`);            *)
(* do_uninstall returns Failure with nothing removed exactly when no       *)
(* request matched any installation.                                       *)
(***************************************************************************)
C28_UnmatchedTargetDoesNotStop ==
    \A p \in Runs :
       LET run == proc[p]
           M == UNION {MatchesOf(p, r) : r \in SearchedRequests(p)}
       IN (run.pc \in {"executables", "await", "returned", "done"}
              /\ SearchedRequests(p) # {}) =>
             /\ run.pc = "executables" => M # {}
             /\ run.pc # "executables" /\ run.status # "Err" =>
                   /\ run.matching_installations = M
                   /\ M = {} <=>
                         /\ run.status = "Failure"
                         /\ run.uninstalled = <<>>
                         /\ run.errors = <<>>
                         /\ run.uninstalled_executables = {}
                   /\ run.status \in {"Success", "Failure"} =>
                         Elements(run.uninstalled) \cup Elements(run.errors) = M

\* Two explicit targets, one matching nothing; the installation matched by
\* the other one was removed.
C28_Witness ==
    \E p \in Runs :
       /\ ~proc[p].all
       /\ \E r \in proc[p].targets : r.kind = "Version" /\ MatchesOf(p, r) = {}
       /\ \E r \in proc[p].targets : r.kind = "Version" /\ MatchesOf(p, r) # {}
       /\ proc[p].status = "Success"
       /\ proc[p].uninstalled # <<>>

\* The entries of the executable directory removed by the step being taken.
RemovedEntries == fs.bin \ fs'.bin

(***************************************************************************)
(* C29: in every step, an entry leaves the executable directory only if    *)
(* it is not a directory, has the executable_name, executable_name_major   *)
(* or executable_name_minor of some matching installation of the run that  *)
(* takes the step, and is a bin link of a matching installation of that    *)
(* run; and that run has not yet started to remove an installation         *)
(* directory.                                                              *)
(***************************************************************************)
C29_OnlyOwnExecutablesRemoved ==
    [][\A e \in RemovedEntries :
          \E p \in Runs :
             /\ proc[p].pc = "executables"
             /\ proc'[p].pc # "executables"
             /\ ~e.is_dir
             /\ \E k \in proc[p].matching_installations :
                   e.name \in {executable_name(k), executable_name_major(k),
                               executable_name_minor(k)}
             /\ e.link \in proc[p].matching_installations
             /\ proc[p].tasks = {}
             /\ proc[p].uninstalled = <<>>
             /\ proc[p].errors = <<>>
             /\ proc[p].installed_installations \subseteq fs.dirs]_vars

\* A run removed the links of its matching installation and left in place an
\* entry that has the name of one of its executables but links to an
\* installation that is not being uninstalled.
C29_Witness ==
    \E p \in Runs :
       /\ proc[p].pc = "await"
       /\ proc[p].uninstalled_executables # {}
       /\ \E e \in executable_candidates(fs.bin, proc[p].matching_installations) :
             /\ e.link # NoKey
             /\ e.link \notin proc[p].matching_installations

\* Run p is between the acquisition of the lock and the end of the clean-up.
InsideLock(p) == proc[p].pc \in {"search", "executables", "await", "returned"}

\* Run p has not searched for or removed anything.
NothingDone(p) ==
    /\ proc[p].installed_installations = {}
    /\ proc[p].matching_installations = {}
    /\ proc[p].uninstalled_executables = {}
    /\ proc[p].uninstalled = <<>>
    /\ proc[p].errors = <<>>
    /\ proc[p].status = "None"

(***************************************************************************)
(* C26: a run holds the managed-installations lock from before its search  *)
(* until its clean-up has finished: a run that has not acquired the lock   *)
(* has searched and removed nothing, a run between the search and the end  *)
(* of the clean-up holds the lock, and no two runs are there at the same   *)
(* time.                                                                   *)
(***************************************************************************)
C26_RemovalsUnderLock ==
    /\ \A p \in Runs :
          /\ proc[p].pc \in {"start", "lock"} => NothingDone(p)
          /\ InsideLock(p) => lock = p
    /\ \A p, q \in Runs : (InsideLock(p) /\ InsideLock(q)) => p = q

\* One run has removed an installation and is still removing, while the
\* other one waits for the lock.
C26_Witness ==
    \E p, q \in Runs :
       /\ proc[p].pc = "await"
       /\ proc[p].uninstalled # <<>>
       /\ proc[p].tasks # {}
       /\ proc[q].pc = "lock"
       /\ lock = p


(***************************************************************************)
(* detect_virtual_env (uv-interpreter/src/virtual_env.rs).                 *)
(* An OsString is a sequence of units, <<>> being the empty string; a      *)
(* directory is the sequence of its components below the root.  The call   *)
(* is modelled in steps: the match on the two environment variables, then  *)
(* one step per ancestor of the current directory.                         *)
(***************************************************************************)
\* An OsString has at most MaxLen units, each in 1..MaxUnit.
MaxLen == 1
MaxUnit == 2
\* The current directory is MaxDepth components below the root.
MaxDepth == 1

OsString == UNION {[1..n -> 1..MaxUnit] : n \in 0..MaxLen}

\* What env::var_os returns: None when the variable is not in the environment.
OptionOsString == {None} \cup {Some(value) : value \in OsString}

os_str_is_empty(value) == Len(value) = 0

Ok(x) == [tag |-> "Ok", v |-> x]
Err(e) == [tag |-> "Err", e |-> e]

var_os_keeps_empty(value) == value

\* env::var_os(..).filter(|value| !value.is_empty())
var_os_filtered(value) ==
    IF is_some(value) /\ ~os_str_is_empty(value.v) THEN value ELSE None

\* The match on the two variables: Some(result) when an arm returns, None
\* when the (None, None) arm falls through to the search.
match_environment(venv, conda) ==
    IF is_some(venv) /\ is_none(conda) THEN Some(Ok(Some(venv.v)))
    ELSE IF is_none(venv) /\ is_some(conda) THEN Some(Ok(Some(conda.v)))
    ELSE IF is_some(venv) /\ is_some(conda) /\ venv.v = conda.v
         THEN Some(Ok(Some(venv.v)))
    ELSE IF is_some(venv) /\ is_some(conda) THEN Some(Err([kind |-> "Conflict"]))
    ELSE None

\* The path component `.venv`.
DotVenv == 0

join(dir, component) == Append(dir, component)

current_dir == [i \in 1..MaxDepth |-> 1]

ancestors_from_root(dir) == [i \in 1..(Len(dir) + 1) |-> SubSeq(dir, 1, i - 1)]

\* Path::ancestors: the directory itself, then each parent up to the root.
ancestors(dir) == [i \in 1..(Len(dir) + 1) |-> SubSeq(dir, 1, Len(dir) + 1 - i)]

\* What a directory can hold under the name `.venv`: nothing, a file, or a
\* directory with or without a pyvenv.cfg file and a python executable.
DotVenvEntries ==
    {[kind |-> k, pyvenv_cfg |-> c, python |-> x] :
        k \in {"missing", "file", "dir"}, c \in BOOLEAN, x \in BOOLEAN}
    \ {e \in [kind : {"missing", "file"}, pyvenv_cfg : BOOLEAN, python : BOOLEAN] :
          e.pyvenv_cfg \/ e.python}

\* The body of the loop over the ancestors: Some(result) when it returns.
probe(entries, dir) ==
    LET dot_venv == join(dir, DotVenv)
    IN  IF entries[dir].kind = "dir"
        THEN IF ~entries[dir].pyvenv_cfg
             THEN Some(Err([kind |-> "MissingPyVenvCfg", dot_venv |-> dot_venv]))
             ELSE IF ~entries[dir].python
             THEN Some(Err([kind |-> "BrokenVenv", dot_venv |-> dot_venv]))
             ELSE Some(Ok(Some(dot_venv)))
        ELSE None

\* The match on VIRTUAL_ENV and CONDA_PREFIX.
MatchEnvironment ==
    /\ detect.pc = "match"
    /\ LET arm == match_environment(var_os_filtered(environ.VIRTUAL_ENV),
                                    var_os_filtered(environ.CONDA_PREFIX))
       IN  detect' = IF is_some(arm)
                     THEN [detect EXCEPT !.pc = "done", !.result = arm.v]
                     ELSE [detect EXCEPT !.pc = "search",
                                         !.ancestors = ancestors(current_dir)]
    /\ UNCHANGED <<environ, dot_venvs, bucket_vars, uninstall_vars, libc_vars>>

\* One iteration of the loop: the next ancestor's `.venv` is looked at.
ProbeAncestor ==
    /\ detect.pc = "search"
    /\ detect.ancestors # <<>>
    /\ LET dir == Head(detect.ancestors)
           found == probe(dot_venvs, dir)
           probed == Append(detect.probed, join(dir, DotVenv))
       IN  detect' = IF is_some(found)
                     THEN [detect EXCEPT !.pc = "done", !.probed = probed,
                                         !.result = found.v]
                     ELSE [detect EXCEPT !.probed = probed,
                                         !.ancestors = Tail(detect.ancestors)]
    /\ UNCHANGED <<environ, dot_venvs, bucket_vars, uninstall_vars, libc_vars>>

\* No ancestor holds a `.venv` directory.
SearchExhausted ==
    /\ detect.pc = "search"
    /\ detect.ancestors = <<>>
    /\ detect' = [detect EXCEPT !.pc = "done", !.result = Ok(None)]
    /\ UNCHANGED <<environ, dot_venvs, bucket_vars, uninstall_vars, libc_vars>>

\* What Virtualenv::from_env can return for a result of detect_virtual_env:
\* its error, NotFound for Ok(None), and for a directory either the
\* Virtualenv rooted at the canonical form of it or the error of
\* fs_err::canonicalize or of Interpreter::query.
from_env(detected) ==
    IF detected.tag = "Err" THEN {detected}
    ELSE IF is_none(detected.v) THEN {Err([kind |-> "NotFound"])}
    ELSE {Ok([root |-> [canonical |-> detected.v.v]]),
          Err([kind |-> "Io"]), Err([kind |-> "Query"])}

\* Virtualenv::from_env continues after the call of detect_virtual_env.
FromEnv ==
    /\ detect.pc = "done"
    /\ \E returned \in from_env(detect.result) :
          detect' = [detect EXCEPT !.pc = "returned", !.from_env = returned]
    /\ UNCHANGED <<environ, dot_venvs, bucket_vars, uninstall_vars, libc_vars>>

NextDetect ==
    \/ MatchEnvironment
    \/ ProbeAncestor
    \/ SearchExhausted
    \/ FromEnv

\* No run of `uv python uninstall`.
NoUninstall ==
    /\ fs = [dirs |-> {}, links |-> <<>>, bin |-> {}, root |-> FALSE]
    /\ lock = 0
    /\ proc = <<>>

\* One call, in any environment and on any content of the ancestors.
InitDetect ==
    /\ NoBucket
    /\ NoUninstall
    /\ NoLibc
    /\ environ \in [VIRTUAL_ENV : OptionOsString, CONDA_PREFIX : OptionOsString]
    /\ dot_venvs \in [{ancestors(current_dir)[i] : i \in 1..(MaxDepth + 1)}
                         -> DotVenvEntries]
    /\ detect = [pc |-> "match", ancestors |-> <<>>, probed |-> <<>>,
                 result |-> None, from_env |-> None]

SpecDetect == InitDetect /\ [][NextDetect]_vars

\* The variable is in the environment with a value that is not empty.
IsSet(value) == is_some(value) /\ value.v # <<>>

\* C30: detect_virtual_env decides from the environment variables before it
\* looks at the file system, an empty value counting as unset: with only
\* VIRTUAL_ENV set it returns that value, with only CONDA_PREFIX set it
\* returns that value, with both set and equal it returns the common path,
\* with both set and different it returns Error::Conflict; and no `.venv` is
\* looked at unless neither variable is set.
C30_EnvironmentDecidesFirst ==
    LET venv == environ.VIRTUAL_ENV
        conda == environ.CONDA_PREFIX
    IN  /\ (detect.pc = "done" /\ IsSet(venv) /\ ~IsSet(conda))
              => detect.result = Ok(Some(venv.v))
        /\ (detect.pc = "done" /\ ~IsSet(venv) /\ IsSet(conda))
              => detect.result = Ok(Some(conda.v))
        /\ (detect.pc = "done" /\ IsSet(venv) /\ IsSet(conda) /\ venv.v = conda.v)
              => detect.result = Ok(Some(venv.v))
        /\ (detect.pc = "done" /\ IsSet(venv) /\ IsSet(conda) /\ venv.v # conda.v)
              => detect.result = Err([kind |-> "Conflict"])
        /\ (detect.pc = "search" \/ detect.probed # <<>>)
              => (~IsSet(venv) /\ ~IsSet(conda))

\* VIRTUAL_ENV is present but empty, CONDA_PREFIX is set, the current
\* directory holds a usable `.venv`, and the call has returned CONDA_PREFIX.
C30_Witness ==
    /\ detect.pc = "done"
    /\ environ.VIRTUAL_ENV = Some(<<>>)
    /\ IsSet(environ.CONDA_PREFIX)
    /\ dot_venvs[current_dir] = [kind |-> "dir", pyvenv_cfg |-> TRUE, python |-> TRUE]
    /\ detect.result = Ok(Some(environ.CONDA_PREFIX.v))


\* The ancestor of the current directory that is k components deep, and the
\* depths at which an ancestor holds a `.venv` directory.
AncestorAt(k) == SubSeq(current_dir, 1, k)
DotVenvDepths == {k \in 0..MaxDepth : dot_venvs[AncestorAt(k)].kind = "dir"}

\* The `.venv` paths looked at when the search stops at depth k: those of the
\* current directory and of its parents down to that depth, in this order.
ProbedDownTo(k) ==
    [i \in 1..(MaxDepth - k + 1) |-> join(AncestorAt(MaxDepth + 1 - i), DotVenv)]

\* detect_virtual_env has returned, in an environment with neither variable set.
SearchReturned ==
    /\ detect.pc \in {"done", "returned"}
    /\ ~IsSet(environ.VIRTUAL_ENV)
    /\ ~IsSet(environ.CONDA_PREFIX)

\* C31: with no environment variable set, the nearest ancestor of the current
\* directory that holds a `.venv` directory decides: the result is that
\* directory if it has a pyvenv.cfg file and a Python executable,
\* MissingPyVenvCfg if the file is missing, BrokenVenv if the file is there
\* and the executable is missing, and no farther ancestor is looked at; the
\* result is Ok(None) exactly when no ancestor holds a `.venv` directory, and
\* from_env then returns NotFound.
C31_NearestDotVenvDecides ==
    SearchReturned =>
        /\ \A k \in DotVenvDepths :
              (\A j \in DotVenvDepths : j <= k) =>
                 LET dot_venv == join(AncestorAt(k), DotVenv)
                     entry == dot_venvs[AncestorAt(k)]
                 IN  /\ (entry.pyvenv_cfg /\ entry.python)
                           => detect.result = Ok(Some(dot_venv))
                     /\ ~entry.pyvenv_cfg
                           => detect.result = Err([kind |-> "MissingPyVenvCfg",
                                                   dot_venv |-> dot_venv])
                     /\ (entry.pyvenv_cfg /\ ~entry.python)
                           => detect.result = Err([kind |-> "BrokenVenv",
                                                   dot_venv |-> dot_venv])
                     /\ detect.probed = ProbedDownTo(k)
        /\ (detect.result = Ok(None)) <=> (DotVenvDepths = {})
        /\ (detect.pc = "returned" /\ detect.result = Ok(None))
              => detect.from_env = Err([kind |-> "NotFound"])

\* The current directory holds a `.venv` directory without a Python
\* executable, its parent holds a usable one, and from_env has returned the
\* BrokenVenv of the nearer one after a single look.
C31_Witness ==
    /\ SearchReturned
    /\ detect.pc = "returned"
    /\ dot_venvs[current_dir] = [kind |-> "dir", pyvenv_cfg |-> TRUE, python |-> FALSE]
    /\ dot_venvs[AncestorAt(MaxDepth - 1)] = [kind |-> "dir", pyvenv_cfg |-> TRUE, python |-> TRUE]
    /\ detect.from_env = Err([kind |-> "BrokenVenv", dot_venv |-> join(current_dir, DotVenv)])
    /\ Len(detect.probed) = 1


(***************************************************************************)
(* detect_linux_libc (uv-platform/src/libc.rs).                            *)
(* The host is described by what it answers to each probe: the state of    *)
(* the four common binaries, the outcome of running ld, the target of the  *)
(* ld symlink, and the outcome of running `ld --version`.  A regular       *)
(* expression is modelled by what it captures from an output.              *)
(***************************************************************************)
\* Detected versions are 1.<minor> with minor in 1..MaxLibcMinor.
MaxLibcMinor == 1

\* ["/bin/sh", "/usr/bin/env", "/bin/dash", "/bin/ls"]
attempts == 4

\* A common binary is missing, exists without a readable ELF interpreter, or
\* is an ELF file that names its interpreter.
Binaries == {"missing", "no_interpreter", "elf"}

LibcVersions == [major : {1}, minor : 1..MaxLibcMinor]
Manylinux(version) == [kind |-> "Manylinux", major |-> version.major, minor |-> version.minor]
Musllinux(version) == [kind |-> "Musllinux", major |-> version.major, minor |-> version.minor]

\* What running a command gives: an io::Error, or an output whose stdout and
\* stderr hold a version the regular expression captures, or none.
Captures == {None} \cup {Some(version) : version \in LibcVersions}
Outputs == {[status |-> "failed"]}
           \cup [status : {"ran"}, stdout : Captures, stderr : Captures]

\* What fs::read_link gives: an io::Error, a path without a file name, a file
\* name the regular expression rejects, or ld-<major>.<minor>.so.
Links == {[status |-> "io_error"], [status |-> "no_file_name"],
          [status |-> "mismatch"]}
         \cup [status : {"version"}, version : LibcVersions]

\* The interpreter named by the ELF header of the binary at `path`.
find_ld_path_at(binaries, path) ==
    IF binaries[path] = "elf" THEN Some([interpreter_of |-> path]) ELSE None

RECURSIVE find_ld_path_from(_, _, _)
find_ld_path_from(binaries, i, found_anything) ==
    IF i > attempts
    THEN IF ~found_anything
         THEN Err([kind |-> "NoCommonBinariesFound"])
         ELSE Err([kind |-> "CoreBinaryParsing"])
    ELSE IF binaries[i] # "missing" /\ is_some(find_ld_path_at(binaries, i))
         THEN Ok(find_ld_path_at(binaries, i).v)
         ELSE find_ld_path_from(binaries, i + 1,
                                found_anything \/ binaries[i] # "missing")

find_ld_path(binaries) == find_ld_path_from(binaries, 1, FALSE)

detect_musl_version(output) ==
    IF output.status = "failed" THEN Err([kind |-> "FailedToRun", libc |-> "musl"])
    ELSE IF is_some(output.stdout) THEN Ok(Musllinux(output.stdout.v))
    ELSE IF is_some(output.stderr) THEN Ok(Musllinux(output.stderr.v))
    ELSE Err([kind |-> "InvalidLdSoOutputMusl"])

detect_linux_libc_from_ld_symlink(link) ==
    IF link.status = "io_error" THEN Err([kind |-> "Io"])
    ELSE IF link.status = "no_file_name" THEN Err([kind |-> "MissingBasePath"])
    ELSE IF link.status = "mismatch" THEN Err([kind |-> "GlibcExtractionMismatch"])
    ELSE Ok(Manylinux(link.version))

detect_glibc_version_from_ld(output) ==
    IF output.status = "failed" THEN Err([kind |-> "FailedToRun", libc |-> "glibc"])
    ELSE IF is_some(output.stdout) THEN Ok(Manylinux(output.stdout.v))
    ELSE IF is_some(output.stderr) THEN Ok(Manylinux(output.stderr.v))
    ELSE Err([kind |-> "InvalidLdSoOutputGnu"])

detectors_symlink_first == <<"symlink", "musl", "glibc_ld">>

\* The order of the three match blocks of detect_linux_libc.
detectors == <<"musl", "symlink", "glibc_ld">>

\* The result of one detector on the host.
run_detector(host, detector) ==
    IF detector = "musl" THEN detect_musl_version(host.ld)
    ELSE IF detector = "symlink" THEN detect_linux_libc_from_ld_symlink(host.link)
    ELSE detect_glibc_version_from_ld(host.ld_version)

\* let ld_path = find_ld_path()?;
FindLdPath ==
    /\ libc.pc = "find_ld_path"
    /\ LET found == find_ld_path(system.binaries)
       IN  libc' = IF found.tag = "Err"
                   THEN [libc EXCEPT !.pc = "done", !.result = found]
                   ELSE [libc EXCEPT !.pc = "detect", !.ld_path = Some(found.v)]
    /\ UNCHANGED <<system, bucket_vars, uninstall_vars, venv_vars>>

\* One match block: the next detector runs; its Ok is returned, its Err is
\* traced and the next block follows.
Detect ==
    /\ libc.pc = "detect"
    /\ Len(libc.tried) < Len(detectors)
    /\ LET detector == detectors[Len(libc.tried) + 1]
           outcome == run_detector(system, detector)
       IN  libc' = IF outcome.tag = "Ok"
                   THEN [libc EXCEPT !.pc = "done", !.result = outcome,
                                     !.tried = Append(@, detector)]
                   ELSE [libc EXCEPT !.tried = Append(@, detector),
                                     !.traced = Append(@, outcome.e)]
    /\ UNCHANGED <<system, bucket_vars, uninstall_vars, venv_vars>>

\* Err(LibcDetectionError::NoLibcFound)
ReturnNoLibcFound ==
    /\ libc.pc = "detect"
    /\ Len(libc.tried) = Len(detectors)
    /\ libc' = [libc EXCEPT !.pc = "done", !.result = Err([kind |-> "NoLibcFound"])]
    /\ UNCHANGED <<system, bucket_vars, uninstall_vars, venv_vars>>

NextLibc ==
    \/ FindLdPath
    \/ Detect
    \/ ReturnNoLibcFound

\* One call, on any host.
InitLibc ==
    /\ NoBucket
    /\ NoUninstall
    /\ NoDetect
    /\ system \in [binaries : [1..attempts -> Binaries], ld : Outputs,
                   link : Links, ld_version : Outputs]
    /\ libc = [pc |-> "find_ld_path", ld_path |-> None, tried |-> <<>>,
               traced |-> <<>>, result |-> None]

SpecLibc == InitLibc /\ [][NextLibc]_vars

\* The three detectors' results on the host.
MuslResult == detect_musl_version(system.ld)
SymlinkResult == detect_linux_libc_from_ld_symlink(system.link)
GlibcLdResult == detect_glibc_version_from_ld(system.ld_version)

\* The errors a detector can produce.
DetectorErrors ==
    {"FailedToRun", "InvalidLdSoOutputMusl", "Io", "MissingBasePath",
     "GlibcExtractionMismatch", "InvalidLdSoOutputGnu"}

\* C32: detect_linux_libc tries the detectors in the order musl from running
\* ld, glibc from the ld symlink name, glibc from `ld --version`, and returns
\* the result of the first that succeeds; a detector's error is traced and
\* never returned; NoLibcFound is returned iff all three fail; and an error
\* of find_ld_path is returned before any detector runs.
C32_FirstDetectorWins ==
    (libc.pc = "done") =>
        IF find_ld_path(system.binaries).tag = "Err"
        THEN /\ libc.result = find_ld_path(system.binaries)
             /\ libc.tried = <<>>
        ELSE /\ MuslResult.tag = "Ok"
                   => libc.result = MuslResult /\ libc.tried = <<"musl">>
             /\ (MuslResult.tag = "Err" /\ SymlinkResult.tag = "Ok")
                   => /\ libc.result = SymlinkResult
                      /\ libc.tried = <<"musl", "symlink">>
                      /\ libc.traced = <<MuslResult.e>>
             /\ (MuslResult.tag = "Err" /\ SymlinkResult.tag = "Err"
                 /\ GlibcLdResult.tag = "Ok")
                   => /\ libc.result = GlibcLdResult
                      /\ libc.tried = <<"musl", "symlink", "glibc_ld">>
                      /\ libc.traced = <<MuslResult.e, SymlinkResult.e>>
             /\ (libc.result = Err([kind |-> "NoLibcFound"]))
                   <=> (MuslResult.tag = "Err" /\ SymlinkResult.tag = "Err"
                        /\ GlibcLdResult.tag = "Err")
             /\ libc.result.tag = "Err"
                   => /\ libc.result.e.kind \notin DetectorErrors
                      /\ libc.traced = <<MuslResult.e, SymlinkResult.e, GlibcLdResult.e>>

\* /bin/sh is missing and /usr/bin/env names the interpreter; running ld
\* fails, the symlink is ld-1.1.so and `ld --version` would also answer: the
\* call has returned the symlink's version after tracing the musl error.
C32_Witness ==
    /\ libc.pc = "done"
    /\ system.binaries[1] = "missing"
    /\ system.binaries[2] = "elf"
    /\ system.ld.status = "failed"
    /\ system.link.status = "version"
    /\ GlibcLdResult.tag = "Ok"
    /\ libc.result = Ok(Manylinux(system.link.version))
    /\ libc.traced = <<[kind |-> "FailedToRun", libc |-> "musl"]>>

====
